---------------------------- MODULE Spec2Model ----------------------------
(***************************************************************************)
(* Model of the online audio resolution and cache subsystem of Analizalo:  *)
(*   - the persistent stream_url_cache table (db/queries/onlineSongs.ts),  *)
(*   - the on-disk audio cache and its cleanup sweep (cleanupCache),       *)
(*   - the Piped / yt-dlp resolver (fetchStreamInfo, getStreamUrl),        *)
(*   - the Innertube client cascade (getYouTubeStreamUrl),                 *)
(*   - the prefetch queue (prefetchVideos, prefetchSingle).                *)
(*                                                                         *)
(* Time is counted in minutes, file sizes in units of SIZE_UNIT_BYTES      *)
(* bytes, so that every threshold of the code is an exact integer.         *)
(* JavaScript runs each handler to its next await without interruption;    *)
(* every action below is one such run-to-await segment.                    *)
(***************************************************************************)
EXTENDS Integers, Sequences, FiniteSets

VARIABLES
    now,                  \* Date.now(), in minutes
    streamUrlCache,       \* table stream_url_cache: videoId -> row
    dbOps,                \* queries sent to the database, not yet answered
    lastGet,              \* outcome of the last finished getCachedStreamInfo
                          \* / getRawCachedStreamInfo call (observation)
    files,                \* CACHE_DIR: file name -> [mtime, atime, size]
    protectedSongIds,     \* let protectedSongIds: Set<string>
    lastSweep,            \* what the last cleanupCache run saw and deleted
                          \* (observation)
    lastWorkingInstance,  \* let lastWorkingInstance: string | null
    calls,                \* running getStreamUrl / prefetchSingle calls
    lastResolve,          \* the last fetchStreamInfo that gave getStreamUrl
                          \* formats: its id, the provider, the format
                          \* getHighestQualityAudio picked and the expiry
                          \* saveStreamInfoToCache computes for them
                          \* (observation)
    prefetchInProgress,   \* const prefetchInProgress = new Set<string>()
    prefetchQueue,        \* const prefetchQueue: string[]
    activePrefetches,     \* let activePrefetches
    lastOp,               \* the call that returned last, with what it
                          \* found and did (observation)
    youtube,              \* getYouTubeStreamUrl.ts: the Innertube singleton
                          \* exists (let youtube is not null)
    urlCache,             \* getYouTubeStreamUrl.ts: urlCache Map
    ytCalls,              \* running getYouTubeStreamUrl calls
    lastYt,               \* outcome of the last Innertube resolution
                          \* (observation)
    selInput,             \* argument given to getHighestQualityAudio
    selResult,            \* what it returned
    downloadCall,         \* the running downloadSong call
    downloaded,           \* the downloads folder: file path -> size
    lastDownload,         \* what the last downloadSong call returned
                          \* (observation)
    queue,                \* OnlineQueueManager: private queue
    currentIndex,         \* private currentIndex (counted from 0)
    isActive,             \* private isActive
    player,               \* private player is not null
    playingId,            \* private playingId
    playCalls,            \* running playCurrentSong calls
    lastCall,             \* the method of the manager called last
                          \* (observation)
    lastEvent             \* what the manager did last to the player or
                          \* told its subscribers (observation)

clockVars == <<now>>

cacheVars == <<streamUrlCache, dbOps, lastGet>>

fsVars == <<files, protectedSongIds, lastSweep>>

resolverVars == <<lastWorkingInstance, calls, lastResolve>>

prefetchVars == <<prefetchInProgress, prefetchQueue, activePrefetches, lastOp>>

ytVars == <<youtube, urlCache, ytCalls, lastYt>>

selVars == <<selInput, selResult>>

dlVars == <<downloadCall, downloaded, lastDownload>>

qmVars == <<queue, currentIndex, isActive, player, playingId, playCalls,
            lastCall, lastEvent>>

vars == <<clockVars, cacheVars, fsVars, resolverVars, prefetchVars, ytVars,
          selVars, dlVars, qmVars>>

\* Everything the stream_url_cache queries never touch.
outsideCache == <<fsVars, resolverVars, prefetchVars, ytVars, selVars, dlVars, qmVars>>

---------------------------------------------------------------------------
(* Generic helpers for JavaScript Map / table values.                      *)

MapPut(m, k, v) == [x \in (DOMAIN m) \cup {k} |-> IF x = k THEN v ELSE m[x]]

MapDel(m, k) == [x \in (DOMAIN m) \ {k} |-> m[x]]

EmptyMap == [x \in {} |-> TRUE]

---------------------------------------------------------------------------
(* Identifiers.  A raw id may carry the vendor prefix "MPED".              *)

CoreIds == {"a", "b", "c", "d", "x", "y"}

RawIds == CoreIds \cup {"MPED" \o c : c \in CoreIds}

\* id.startsWith('MPED') ? id.substring(4) : id
StripMPED(id) ==
    IF \E c \in RawIds : id = "MPED" \o c
    THEN CHOOSE c \in RawIds : id = "MPED" \o c
    ELSE id

---------------------------------------------------------------------------
(* Audio formats.  A url is modelled by what the code reads of it: whether *)
(* it is non-empty, whether it carries an expire= parameter, whether that  *)
(* parameter parses as a number, and the epoch (in minutes) it names.      *)

Url(present, hasExpire, numeric, expire) ==
    [present |-> present, hasExpire |-> hasExpire, numeric |-> numeric,
     expire |-> expire]

NoUrl == Url(FALSE, FALSE, FALSE, 0)

Format(itag, codec, bitrate, url) ==
    [itag |-> itag, audioCodec |-> codec, bitrate |-> bitrate, url |-> url]

---------------------------------------------------------------------------
(* stream_url_cache (MetadataCache)                                        *)

DEFAULT_TTL_MIN == 360

EXPIRY_MARGIN_MIN == 5

\* saveStreamInfoToCache, lines 97-111: the expiry is read from the FIRST
\* format's url; a url without expire= keeps the default of six hours.
ComputeExpiresAt(audioFormats, t) ==
    IF /\ Len(audioFormats) > 0
       /\ audioFormats[1].url.present
       /\ audioFormats[1].url.hasExpire
    THEN audioFormats[1].url.expire - EXPIRY_MARGIN_MIN
    ELSE t + DEFAULT_TTL_MIN

\* parseInt of a non-numeric expire= gives NaN, new Date(NaN) is an Invalid
\* Date and the insert throws; the catch at line 139 logs and saves nothing.
ExpiryIsInvalidDate(audioFormats) ==
    /\ Len(audioFormats) > 0
    /\ audioFormats[1].url.present
    /\ audioFormats[1].url.hasExpire
    /\ ~audioFormats[1].url.numeric

\* now >= cached.expiresAt (lines 26 and 65)
IsExpiredMutant(t, row) == t > row.expiresAt

IsExpired(t, row) == t >= row.expiresAt

NoGet ==
    [fn |-> "none", videoId |-> "", hadRow |-> FALSE, fresh |-> FALSE,
     returned |-> FALSE, rowAfter |-> FALSE]

DbOp(op, fn, videoId, audioFormats, expiresAt, fresh) ==
    [op |-> op, fn |-> fn, videoId |-> videoId, audioFormats |-> audioFormats,
     expiresAt |-> expiresAt, fresh |-> fresh]

\* Inputs of the cache operations.
CacheIds == {"a", "b"}

ExpiringUrl(e) == Url(TRUE, TRUE, TRUE, e)

PlainUrl == Url(TRUE, FALSE, FALSE, 0)

GarbledExpiryUrl == Url(TRUE, TRUE, FALSE, 0)

SampleFormatLists ==
    { << Format(140, "mp4a", 128, ExpiringUrl(6)) >>,
      << Format(250, "opus", 128, PlainUrl),
         Format(141, "mp4a", 256, ExpiringUrl(6)) >>,
      << Format(140, "mp4a", 128, GarbledExpiryUrl) >> }

MaxDbOps == 2

\* getCachedStreamInfo, lines 13-17: the select is sent.
GetCachedStreamInfo(videoId) ==
    /\ Cardinality(dbOps) < MaxDbOps
    /\ dbOps' = dbOps \cup
           {DbOp("select", "getCachedStreamInfo", videoId, <<>>, 0, FALSE)}
    /\ UNCHANGED <<now, streamUrlCache, lastGet, outsideCache>>

\* getRawCachedStreamInfo, lines 53-57: the select is sent.
GetRawCachedStreamInfo(videoId) ==
    /\ Cardinality(dbOps) < MaxDbOps
    /\ dbOps' = dbOps \cup
           {DbOp("select", "getRawCachedStreamInfo", videoId, <<>>, 0, FALSE)}
    /\ UNCHANGED <<now, streamUrlCache, lastGet, outsideCache>>

\* The select answers and the caller runs on (lines 19-40 and 59-75):
\* no row -> null; expired row -> deleteCachedStreamInfo is awaited;
\* otherwise the row's formats are returned.  lastGet.fresh records
\* whether the clock was before the row's expiresAt at that moment.
SelectAnswered(o) ==
    /\ o \in dbOps
    /\ o.op = "select"
    /\ IF o.videoId \notin DOMAIN streamUrlCache
       THEN /\ dbOps' = dbOps \ {o}
            /\ lastGet' = [fn |-> o.fn, videoId |-> o.videoId,
                           hadRow |-> FALSE, fresh |-> FALSE,
                           returned |-> FALSE, rowAfter |-> FALSE]
       ELSE LET cached == streamUrlCache[o.videoId] IN
            IF IsExpired(now, cached)
            THEN /\ dbOps' = (dbOps \ {o}) \cup
                        {DbOp("delete", o.fn, o.videoId, <<>>, 0,
                              now < cached.expiresAt)}
                 /\ UNCHANGED lastGet
            ELSE /\ dbOps' = dbOps \ {o}
                 /\ lastGet' = [fn |-> o.fn, videoId |-> o.videoId,
                                hadRow |-> TRUE,
                                fresh |-> (now < cached.expiresAt),
                                returned |-> TRUE, rowAfter |-> TRUE]
    /\ UNCHANGED <<now, streamUrlCache, outsideCache>>

\* deleteCachedStreamInfo, line 149: the delete is sent.
DeleteCachedStreamInfo(videoId) ==
    /\ Cardinality(dbOps) < MaxDbOps
    /\ dbOps' = dbOps \cup
           {DbOp("delete", "deleteCachedStreamInfo", videoId, <<>>, 0, FALSE)}
    /\ UNCHANGED <<now, streamUrlCache, lastGet, outsideCache>>

\* The delete commits.  When it was issued by a get that found its row
\* expired (lines 31-32 and 66-67) that get now returns null.
DeleteCommitted(o) ==
    /\ o \in dbOps
    /\ o.op = "delete"
    /\ streamUrlCache' = MapDel(streamUrlCache, o.videoId)
    /\ dbOps' = dbOps \ {o}
    /\ IF o.fn = "deleteCachedStreamInfo"
       THEN UNCHANGED lastGet
       ELSE lastGet' = [fn |-> o.fn, videoId |-> o.videoId, hadRow |-> TRUE,
                        fresh |-> o.fresh, returned |-> FALSE,
                        rowAfter |-> (o.videoId \in DOMAIN streamUrlCache')]
    /\ UNCHANGED <<now, outsideCache>>

\* saveStreamInfoToCache, lines 89-131: expiresAt is computed at the call,
\* then the upsert is sent.  title and duration are optional parameters:
\* <<>> is undefined, <<v>> the value v.
SaveStreamInfoToCache(videoId, audioFormats, title, duration) ==
    /\ Cardinality(dbOps) < MaxDbOps
    /\ IF ExpiryIsInvalidDate(audioFormats)
       THEN UNCHANGED dbOps
       ELSE dbOps' = dbOps \cup
               {[op |-> "upsert", fn |-> "saveStreamInfoToCache",
                 videoId |-> videoId, audioFormats |-> audioFormats,
                 expiresAt |-> ComputeExpiresAt(audioFormats, now),
                 fresh |-> FALSE, title |-> title, duration |-> duration]}
    /\ UNCHANGED <<now, streamUrlCache, lastGet, outsideCache>>

\* insert ... onConflictDoUpdate (lines 113-131), one statement: video_id
\* is the primary key, so there is one row per video_id.  Without a row
\* the values of lines 115-121 are inserted, an undefined title or duration
\* as NULL (<<>>).  With a row the set of lines 124-130 is applied, and the
\* query builder leaves a key whose value is undefined out of the SET
\* list: that column keeps what the row had.  (The cached_at column is
\* written too; nothing reads it.)
UpsertCommitted(o) ==
    /\ o \in dbOps
    /\ o.op = "upsert"
    /\ streamUrlCache' =
           MapPut(streamUrlCache, o.videoId,
                  [audioFormats |-> o.audioFormats,
                   expiresAt |-> o.expiresAt,
                   title |-> IF /\ o.videoId \in DOMAIN streamUrlCache
                                /\ o.title = <<>>
                             THEN streamUrlCache[o.videoId].title
                             ELSE o.title,
                   duration |-> IF /\ o.videoId \in DOMAIN streamUrlCache
                                   /\ o.duration = <<>>
                                THEN streamUrlCache[o.videoId].duration
                                ELSE o.duration])
    /\ dbOps' = dbOps \ {o}
    /\ UNCHANGED <<now, lastGet, outsideCache>>

\* The clock moves on to a later instant t.
AdvanceClockTo(t) ==
    /\ t > now
    /\ now' = t

---------------------------------------------------------------------------
(* CACHE_DIR and cleanupCache (ByteCache and CacheJanitor)                 *)

MAX_CACHE_SIZE_MB == 4096

MAX_CACHE_AGE_DAYS == 20

\* MAX_CACHE_AGE_DAYS * 24 * 60 * 60 * 1000 ms, in minutes (line 105)
maxAge == MAX_CACHE_AGE_DAYS * 24 * 60

\* MAX_CACHE_SIZE_MB * 1024 * 1024 bytes, in units of 32 bytes (line 168)
maxBytes == MAX_CACHE_SIZE_MB * ((1024 * 1024) \div 32)

Max(a, b) == IF a >= b THEN a ELSE b

FileName(videoId, ext) == [videoId |-> videoId, ext |-> ext]

\* path.basename(file, path.extname(file)), line 114
VideoIdOfFile(name) == name.videoId

\* protectedSongIds.has(videoId), line 115
IsProtectedMutant(name, protected) ==
    (name.videoId \o name.ext) \in protected

IsProtected(name, protected) == VideoIdOfFile(name) \in protected

\* Math.max(file.mtime, file.atime), lines 143 and 162-163
LastUsed(f) == Max(f.mtime, f.atime)

\* Mutant: the age is taken from mtime alone.
Pass1DeletedMutant(fs, protected, t) ==
    { n \in DOMAIN fs :
        /\ ~IsProtected(n, protected)
        /\ t - fs[n].mtime > maxAge }

\* First pass, lines 136-152: the unprotected files not used for more than
\* MAX_CACHE_AGE_DAYS.
Pass1Deleted(fs, protected, t) ==
    { n \in DOMAIN fs :
        /\ ~IsProtected(n, protected)
        /\ t - LastUsed(fs[n]) > maxAge }

\* The comparator of lines 157-165.
CompareFiles(a, b, fs, protected) ==
    IF IsProtected(a, protected) /\ ~IsProtected(b, protected) THEN 1
    ELSE IF ~IsProtected(a, protected) /\ IsProtected(b, protected) THEN -1
    ELSE LastUsed(fs[a]) - LastUsed(fs[b])

Orderings(S) ==
    { s \in [1..Cardinality(S) -> S] :
        \A i, j \in 1..Cardinality(S) : i # j => s[i] # s[j] }

\* Every order Array.prototype.sort can leave the remaining files in: the
\* sort is stable and readdirSync fixes no order, so files the comparator
\* ties may come out either way.
SortedRemaining(fs, protected) ==
    { s \in Orderings(DOMAIN fs) :
        \A i, j \in 1..Len(s) :
            i < j => CompareFiles(s[i], s[j], fs, protected) <= 0 }

RECURSIVE SumSizes(_, _)
SumSizes(fs, names) ==
    IF names = {} THEN 0
    ELSE LET n == CHOOSE m \in names : TRUE
         IN  fs[n].size + SumSizes(fs, names \ {n})

\* Mutant: an `if` in place of the `while` of line 170.
Pass2DeletedMutant(remainingFiles, totalSize, fs, protected) ==
    IF /\ totalSize > maxBytes
       /\ Len(remainingFiles) > 0
       /\ ~IsProtected(Head(remainingFiles), protected)
    THEN {Head(remainingFiles)}
    ELSE {}

\* Second pass, the while loop of lines 170-187.
RECURSIVE Pass2Deleted(_, _, _, _)
Pass2Deleted(remainingFiles, totalSize, fs, protected) ==
    IF totalSize > maxBytes /\ Len(remainingFiles) > 0
    THEN LET oldest == Head(remainingFiles) IN
         IF IsProtected(oldest, protected)
         THEN {}
         ELSE {oldest} \cup
              Pass2Deleted(Tail(remainingFiles), totalSize - fs[oldest].size,
                           fs, protected)
    ELSE {}

Restrict(fs, names) == [n \in names |-> fs[n]]

\* startup: the run was the one of line 207, at module load.
NoSweep == [tick |-> FALSE, pass1 |-> {}, pass2 |-> {}, startup |-> FALSE]

\* cleanupCache, lines 101-204, run at t over the directory fs: what it
\* can leave and what its passes delete.  Every unlinkSync is taken to
\* succeed.
Swept(fs, protected, t) ==
    LET pass1 == Pass1Deleted(fs, protected, t)
        left  == Restrict(fs, (DOMAIN fs) \ pass1)
    IN  { [files |-> Restrict(left, (DOMAIN left) \ pass2),
           pass1 |-> pass1, pass2 |-> pass2] :
          pass2 \in { Pass2Deleted(remainingFiles,
                                   SumSizes(left, DOMAIN left), left,
                                   protected) :
                      remainingFiles \in SortedRemaining(left, protected) } }

\* A run of cleanupCache.  It is synchronous: nothing interleaves.
CleanupCache ==
    \E r \in Swept(files, protectedSongIds, now) :
        /\ files' = r.files
        /\ lastSweep' = [tick |-> ~lastSweep.tick, pass1 |-> r.pass1,
                         pass2 |-> r.pass2, startup |-> FALSE]
        /\ UNCHANGED <<now, protectedSongIds, cacheVars, resolverVars,
                       prefetchVars, ytVars, selVars, dlVars, qmVars>>

\* Mutant: the ids are added to the set.
UpdateProtectedSongIdsMutant(songIds) ==
    /\ protectedSongIds' = protectedSongIds \cup
                                {StripMPED(id) : id \in songIds}
    /\ lastOp' = [fn |-> "updateProtectedSongIds", songIds |-> songIds]
    /\ UNCHANGED <<now, files, lastSweep, cacheVars, resolverVars,
                   prefetchInProgress, prefetchQueue, activePrefetches,
                   ytVars, selVars, dlVars, qmVars>>

\* updateProtectedSongIds, lines 75-81: the set is replaced.
UpdateProtectedSongIds(songIds) ==
    /\ protectedSongIds' = {StripMPED(id) : id \in songIds}
    /\ lastOp' = [fn |-> "updateProtectedSongIds", songIds |-> songIds]
    /\ UNCHANGED <<now, files, lastSweep, cacheVars, resolverVars,
                   prefetchInProgress, prefetchQueue, activePrefetches,
                   ytVars, selVars, dlVars, qmVars>>

\* Mutant: a payload of less than MIN_CACHED_SIZE is not kept, and what was
\* in its place is removed.
WriteFileMutant(fs, name, size, t) ==
    IF size < 3125
    THEN [n \in (DOMAIN fs) \ {name} |-> fs[n]]
    ELSE [n \in (DOMAIN fs) \cup {name} |->
            IF n = name
            THEN [mtime |-> t,
                  atime |-> IF name \in DOMAIN fs THEN fs[name].atime ELSE t,
                  size |-> size]
            ELSE fs[n]]

\* fs.writeFileSync(cachedFile, buffer), lines 813 and 1154: the file is
\* created or overwritten.  Writing sets mtime; atime is set at creation.
WriteFile(fs, name, size, t) ==
    MapPut(fs, name,
           [mtime |-> t,
            atime |-> IF name \in DOMAIN fs THEN fs[name].atime ELSE t,
            size |-> size])

\* The playback consumer reads a cached file handed out at line 753 or 819:
\* the file system records the access.
ReadCacheFile(name) ==
    /\ name \in DOMAIN files
    /\ files[name].atime # now
    /\ files' = [files EXCEPT ![name].atime = now]
    /\ UNCHANGED <<now, protectedSongIds, lastSweep, cacheVars, resolverVars,
                   prefetchVars, ytVars, selVars, dlVars, qmVars>>

\* A payload lands in the cache directory (the write at the end of
\* getStreamUrl or of a prefetch worker, taken on its own).
CacheFileWritten(videoId, ext, size) ==
    /\ files' = WriteFile(files, FileName(videoId, ext), size, now)
    /\ UNCHANGED <<now, protectedSongIds, lastSweep, cacheVars, resolverVars,
                   prefetchVars, ytVars, selVars, dlVars, qmVars>>

NoInstance == "null"

---------------------------------------------------------------------------
(* Format selection                                                        *)

\* [...formats].sort((a, b) => b.bitrate - a.bitrate): a stable sort, so
\* formats of equal bitrate keep their order.
RECURSIVE InsertByBitrate(_, _)
InsertByBitrate(f, sorted) ==
    IF sorted = <<>> THEN <<f>>
    ELSE IF Head(sorted).bitrate >= f.bitrate
         THEN <<Head(sorted)>> \o InsertByBitrate(f, Tail(sorted))
         ELSE <<f>> \o sorted

RECURSIVE SortByBitrateDesc(_)
SortByBitrateDesc(formats) ==
    IF formats = <<>> THEN <<>>
    ELSE InsertByBitrate(formats[Len(formats)],
                         SortByBitrateDesc(SubSeq(formats, 1, Len(formats) - 1)))

\* formats.find(f => f.itag === 251 || f.itag === 140)
FindPreferred(formats) ==
    LET hits == { i \in 1..Len(formats) :
                    formats[i].itag = 251 \/ formats[i].itag = 140 }
    IN  IF hits = {} THEN <<>>
        ELSE << formats[CHOOSE i \in hits : \A j \in hits : i <= j] >>

\* Mutant: the bitrate sort is ascending (the body of getLowQualityAudio).
GetHighestQualityAudioMutant(formats) ==
    IF formats = <<>> THEN <<>>
    ELSE IF FindPreferred(formats) # <<>> THEN FindPreferred(formats)
    ELSE << SortByBitrateDesc(formats)[Len(formats)] >>

\* getHighestQualityAudio, lines 507-517.  null is the empty sequence, a
\* format f is <<f>>.
GetHighestQualityAudio(formats) ==
    IF formats = <<>> THEN <<>>
    ELSE IF FindPreferred(formats) # <<>> THEN FindPreferred(formats)
    ELSE << SortByBitrateDesc(formats)[1] >>

\* getHighestQualityAudio is applied to selInput.
GetHighestQualityAudioCalled ==
    /\ ~selResult.called
    /\ selResult' = [called |-> TRUE,
                     returned |-> GetHighestQualityAudio(selInput)]
    /\ UNCHANGED <<selInput, clockVars, cacheVars, fsVars, resolverVars,
                   prefetchVars, ytVars, dlVars, qmVars>>

---------------------------------------------------------------------------
(* fetchStreamInfo: Piped instances, then yt-dlp                           *)

PIPED_INSTANCES ==
    << "pipedapi.in.projectsegfau.lt", "pipedapi.darkness.services",
       "api.piped.yt", "pipedapi.adminforge.de", "pipedapi.kavin.rocks" >>

SeqToSet(s) == { s[i] : i \in 1..Len(s) }

RECURSIVE SelectSeq2(_, _)
SelectSeq2(s, keep) ==
    IF s = <<>> THEN <<>>
    ELSE (IF Head(s) \in keep THEN <<Head(s)>> ELSE <<>>)
         \o SelectSeq2(Tail(s), keep)

\* lines 341-348: the last working instance is moved to the front.
InstancesToTry(lwi) ==
    IF lwi # NoInstance /\ lwi \in SeqToSet(PIPED_INSTANCES)
    THEN <<lwi>> \o SelectSeq2(PIPED_INSTANCES,
                               SeqToSet(PIPED_INSTANCES) \ {lwi})
    ELSE PIPED_INSTANCES

\* A stream of a Piped answer: s.codec || s.mimeType is kept as one string.
PipedStream(itag, codec, bitrate, url) ==
    [itag |-> itag, codec |-> codec, bitrate |-> bitrate, url |-> url]

\* (s.codec || s.mimeType || '').includes('mp4') || ...includes('m4a')
NamesMp4(codec) == codec \in {"mp4a.40.2", "audio/mp4", "m4a"}

\* An answer of a Piped instance: the HTTP outcome, data.error, and
\* data.audioStreams.
PipedAnswer(status, error, audioStreams) ==
    [status |-> status, error |-> error, audioStreams |-> audioStreams]

\* fetchFromInstance, lines 294-338: TRUE when it returns {instance, data},
\* FALSE when it returns null (HTTP error, data.error, no audio streams,
\* abort after PIPED_TIMEOUT_MS, transport error).
FetchFromInstanceSucceeds(answer) ==
    /\ answer.status = "ok"
    /\ ~answer.error
    /\ Len(answer.audioStreams) > 0

\* The filter and map of lines 471-484.
\* Mutant: the filter(s => s.url) of line 472 is left out.
RECURSIVE MapStreamsMutant(_)
MapStreamsMutant(audioStreams) ==
    IF audioStreams = <<>> THEN <<>>
    ELSE LET st == Head(audioStreams) IN
         << Format(st.itag,
                   IF NamesMp4(st.codec) THEN "mp4a" ELSE "opus",
                   st.bitrate, st.url) >>
         \o MapStreamsMutant(Tail(audioStreams))

RECURSIVE MapStreams(_)
MapStreams(audioStreams) ==
    IF audioStreams = <<>> THEN <<>>
    ELSE LET st == Head(audioStreams) IN
         (IF st.url.present
          THEN << Format(st.itag,
                         IF NamesMp4(st.codec) THEN "mp4a" ELSE "opus",
                         st.bitrate, st.url) >>
          ELSE <<>>)
         \o MapStreams(Tail(audioStreams))

\* processStreamData, lines 467-500, without its write to
\* lastWorkingInstance (see StickyAfter).
ProcessStreamData(answer) ==
    LET audioFormats == MapStreams(answer.audioStreams)
    IN  IF audioFormats = <<>>
        THEN [playable |-> FALSE, statusMSG |-> "No valid audio formats",
              audioFormats |-> <<>>]
        ELSE [playable |-> TRUE, statusMSG |-> "OK",
              audioFormats |-> audioFormats]

\* processStreamData, lines 486-492: the instance is remembered only when a
\* format with a url is left.
StickyAfter(answer, instance, lwi) ==
    IF ProcessStreamData(answer).playable THEN instance ELSE lwi

\* A format of yt-dlp's dump: the fields the filter of lines 415-419 reads
\* (audio-only, url starting with http) and those the mapping keeps.
YtdlpFormat(itag, codec, bitrate, url, audioOnly) ==
    [itag |-> itag, codec |-> codec, bitrate |-> bitrate, url |-> url,
     audioOnly |-> audioOnly]

RECURSIVE FilterAudioOnly(_)
FilterAudioOnly(formats) ==
    IF formats = <<>> THEN <<>>
    ELSE LET f == Head(formats) IN
         (IF f.audioOnly /\ f.url.present
          THEN << Format(f.itag,
                         IF NamesMp4(f.codec) THEN "mp4a" ELSE "opus",
                         f.bitrate, f.url) >>
          ELSE <<>>)
         \o FilterAudioOnly(Tail(formats))

FirstThree(s) == SubSeq(s, 1, IF Len(s) < 3 THEN Len(s) ELSE 3)

\* fetchStreamInfoFromInnertube, lines 396-462 (it runs yt-dlp).  answer is
\* [threw, formats].
YtdlpResult(answer) ==
    IF answer.threw
    THEN [playable |-> FALSE, statusMSG |-> "All streaming sources unavailable",
          audioFormats |-> <<>>]
    ELSE IF answer.formats = <<>>
    THEN [playable |-> FALSE, statusMSG |-> "No formats available",
          audioFormats |-> <<>>]
    ELSE IF FilterAudioOnly(answer.formats) = <<>>
    THEN [playable |-> FALSE, statusMSG |-> "No audio formats available",
          audioFormats |-> <<>>]
    ELSE [playable |-> TRUE, statusMSG |-> "OK",
          audioFormats |->
              FirstThree(SortByBitrateDesc(FilterAudioOnly(answer.formats)))]

---------------------------------------------------------------------------
(* Cache lookup, getStreamUrl and the prefetch workers                     *)

MAX_CONCURRENT_PREFETCH == 2

CACHE_FRESH_MIN == 60

\* 100000 bytes, in units of 32 bytes
MIN_CACHED_SIZE == 3125

CACHE_EXTS == << ".m4a", ".opus", ".webm" >>

\* Date.now() - stats.mtimeMs < 3600000 && stats.size > 100000
\* (lines 750 and 1088)
IsUsableFileMutant(fs, name, t) ==
    /\ name \in DOMAIN fs
    /\ t - fs[name].mtime <= CACHE_FRESH_MIN
    /\ fs[name].size >= MIN_CACHED_SIZE

IsUsableFile(fs, name, t) ==
    /\ name \in DOMAIN fs
    /\ t - fs[name].mtime < CACHE_FRESH_MIN
    /\ fs[name].size > MIN_CACHED_SIZE

\* The loop over ['.m4a', '.opus', '.webm'] of lines 745-756 and 1084-1092:
\* the first usable file, <<>> when there is none.
CachedFileFor(cleanVideoId, fs, t) ==
    LET hits == { i \in 1..Len(CACHE_EXTS) :
                    IsUsableFile(fs, FileName(cleanVideoId, CACHE_EXTS[i]), t) }
    IN  IF hits = {} THEN <<>>
        ELSE << FileName(cleanVideoId,
                         CACHE_EXTS[CHOOSE i \in hits : \A j \in hits : i <= j]) >>

\* isVideoCached, lines 1078-1094
IsVideoCached(videoId, fs, t) == CachedFileFor(StripMPED(videoId), fs, t) # <<>>

NoFile == FileName("", "")

\* A running call: fn is the async function, videoId its cleaned id, pc the
\* await it is suspended at ("sticky": fetchFromInstance(lastWorkingInstance),
\* line 355; "race": Promise.race, line 379; "ytdlp": line 401; "download":
\* fetch + arrayBuffer, lines 788-805 and 1137-1150), sticky the value of
\* lastWorkingInstance it read at lines 342-353, contacted the providers it
\* has sent a request to, in order, via the provider whose answer
\* fetchStreamInfo returned, late the raced instances whose request
\* succeeded after the race was decided.
Call(fn, videoId, pc, sticky, contacted, best, cachedFile) ==
    [fn |-> fn, videoId |-> videoId, pc |-> pc, sticky |-> sticky,
     contacted |-> contacted, best |-> best, cachedFile |-> cachedFile,
     via |-> "", late |-> {}]

\* fetchStreamInfo up to its first await (lines 285-379).
StartFetchStreamInfo(fn, videoId, env) ==
    IF env.lwi # NoInstance
    THEN Call(fn, videoId, "sticky", env.lwi, <<env.lwi>>, <<>>, NoFile)
    ELSE Call(fn, videoId, "race", NoInstance, InstancesToTry(env.lwi),
              <<>>, NoFile)

RemoveAt(s, i) == SubSeq(s, 1, i - 1) \o SubSeq(s, i + 1, Len(s))

\* The prefetch bookkeeping as one value: st = [calls, queue, inProgress,
\* active]; env = [fs, t, lwi] is what the code reads besides.

\* Mutant: the slot is taken without the id being registered.
StartPrefetchSingleMutant(st, videoId, env) ==
    LET cleanVideoId == StripMPED(videoId) IN
    IF IsVideoCached(cleanVideoId, env.fs, env.t)
       \/ cleanVideoId \in st.inProgress
    THEN st
    ELSE [st EXCEPT
            !.active = @ + 1,
            !.calls = Append(@, StartFetchStreamInfo("prefetchSingle",
                                                     cleanVideoId, env))]

\* prefetchSingle up to its first await (lines 1100-1117).
StartPrefetchSingle(st, videoId, env) ==
    LET cleanVideoId == StripMPED(videoId) IN
    IF IsVideoCached(cleanVideoId, env.fs, env.t)
       \/ cleanVideoId \in st.inProgress
    THEN st
    ELSE [st EXCEPT
            !.inProgress = @ \cup {cleanVideoId},
            !.active = @ + 1,
            !.calls = Append(@, StartFetchStreamInfo("prefetchSingle",
                                                     cleanVideoId, env))]

\* processNextPrefetch, lines 1175-1184.
ProcessNextPrefetch(st, env) ==
    IF st.queue = <<>> \/ st.active >= MAX_CONCURRENT_PREFETCH
    THEN st
    ELSE StartPrefetchSingle([st EXCEPT !.queue = Tail(@)], Head(st.queue), env)

\* The for loop of prefetchVideos, lines 1192-1203.
\* Mutant: the includes() check of line 1200 is left out.
RECURSIVE EnqueueAllMutant(_, _, _)
EnqueueAllMutant(st, videoIds, env) ==
    IF videoIds = <<>> THEN st
    ELSE LET cleanId == StripMPED(Head(videoIds)) IN
         EnqueueAllMutant(
             IF /\ ~IsVideoCached(cleanId, env.fs, env.t)
                /\ cleanId \notin st.inProgress
             THEN [st EXCEPT !.queue = Append(@, cleanId)]
             ELSE st,
             Tail(videoIds), env)

RECURSIVE EnqueueAll(_, _, _)
EnqueueAll(st, videoIds, env) ==
    IF videoIds = <<>> THEN st
    ELSE LET cleanId == StripMPED(Head(videoIds)) IN
         EnqueueAll(
             IF /\ ~IsVideoCached(cleanId, env.fs, env.t)
                /\ cleanId \notin st.inProgress
                /\ cleanId \notin SeqToSet(st.queue)
             THEN [st EXCEPT !.queue = Append(@, cleanId)]
             ELSE st,
             Tail(videoIds), env)

\* The while loop of prefetchVideos, lines 1206-1208.
RECURSIVE DrainWhileIdle(_, _)
DrainWhileIdle(st, env) ==
    IF st.active < MAX_CONCURRENT_PREFETCH /\ st.queue # <<>>
    THEN DrainWhileIdle(ProcessNextPrefetch(st, env), env)
    ELSE st

\* The end of call i.  A prefetch worker runs its finally block, lines
\* 1165-1169; getStreamUrl just returns.
\* Mutant: the slot is released twice (in a catch and in the finally).
FinishCallMutant(st, i, env) ==
    LET c   == st.calls[i]
        st1 == [st EXCEPT !.calls = RemoveAt(@, i)]
    IN  IF c.fn = "prefetchSingle"
        THEN ProcessNextPrefetch(
                 [st1 EXCEPT !.inProgress = @ \ {c.videoId},
                             !.active = @ - 2],
                 env)
        ELSE st1

\* Mutant: an id whose file is not in the cache is queued again.
FinishCallRetryMutant(st, i, env) ==
    LET c   == st.calls[i]
        st1 == [st EXCEPT !.calls = RemoveAt(@, i)]
    IN  IF c.fn = "prefetchSingle"
        THEN ProcessNextPrefetch(
                 [st1 EXCEPT !.inProgress = @ \ {c.videoId},
                             !.active = @ - 1,
                             !.queue = IF IsVideoCached(c.videoId, env.fs,
                                                        env.t)
                                       THEN @ ELSE Append(@, c.videoId)],
                 env)
        ELSE st1

FinishCall(st, i, env) ==
    LET c   == st.calls[i]
        st1 == [st EXCEPT !.calls = RemoveAt(@, i)]
    IN  IF c.fn = "prefetchSingle"
        THEN ProcessNextPrefetch(
                 [st1 EXCEPT !.inProgress = @ \ {c.videoId},
                             !.active = @ - 1],
                 env)
        ELSE st1

Bookkeeping ==
    [calls |-> calls, queue |-> prefetchQueue,
     inProgress |-> prefetchInProgress, active |-> activePrefetches]

Env(fs, lwi) == [fs |-> fs, t |-> now, lwi |-> lwi]

SetBookkeeping(st) ==
    /\ calls' = st.calls
    /\ prefetchQueue' = st.queue
    /\ prefetchInProgress' = st.inProgress
    /\ activePrefetches' = st.active

\* What every action of this section leaves alone.
outsidePlayback == <<cacheVars, protectedSongIds, lastSweep, ytVars, selVars, dlVars, qmVars>>

MaxGetStreamUrl == 1

Op(fn, videoId, result, file) ==
    [fn |-> fn, videoId |-> videoId, result |-> result, file |-> file]

NumberOf(fn) == Cardinality({ i \in 1..Len(calls) : calls[i].fn = fn })

\* getStreamUrl, lines 732-759: a usable cached file is handed out, else the
\* resolution starts.
GetStreamUrl(videoId) ==
    LET cleanVideoId == StripMPED(videoId)
        hit == CachedFileFor(cleanVideoId, files, now)
    IN  /\ NumberOf("getStreamUrl") < MaxGetStreamUrl
        /\ IF hit # <<>>
           THEN /\ lastOp' = Op("getStreamUrl", cleanVideoId, "file", hit[1])
                /\ UNCHANGED calls
           ELSE /\ calls' = Append(calls,
                       StartFetchStreamInfo("getStreamUrl", cleanVideoId,
                           Env(files, lastWorkingInstance)))
                /\ UNCHANGED lastOp
        /\ UNCHANGED <<now, files, lastWorkingInstance, lastResolve,
                       prefetchInProgress, prefetchQueue, activePrefetches,
                       outsidePlayback>>

\* fetchStreamInfo has returned r, the answer of provider via, to call i,
\* having left lastWorkingInstance at lwi; the caller runs on to its
\* download (getStreamUrl, lines 761-796; prefetchSingle, lines 1119-1145)
\* or gives up.
Resolved(i, r, lwi, via) ==
    LET c        == calls[i]
        best     == IF r.playable THEN GetHighestQualityAudio(r.audioFormats)
                    ELSE <<>>
        usable   == best # <<>> /\ best[1].url.present
        resolved == IF r.playable /\ c.fn = "getStreamUrl"
                    THEN [videoId |-> StripMPED(c.videoId),
                          expiresAt |-> ComputeExpiresAt(r.audioFormats, now),
                          via |-> via, best |-> best]
                    ELSE lastResolve
    IN  /\ lastWorkingInstance' = lwi
        /\ lastResolve' = resolved
        /\ IF usable
           THEN /\ calls' = [calls EXCEPT ![i] =
                       [c EXCEPT !.pc = "download", !.best = best,
                                 !.via = via,
                                 !.cachedFile = FileName(c.videoId,
                                     IF best[1].audioCodec = "mp4a"
                                     THEN ".m4a" ELSE ".webm")]]
                /\ UNCHANGED lastOp
                /\ UNCHANGED <<prefetchInProgress, prefetchQueue,
                               activePrefetches>>
           ELSE /\ SetBookkeeping(FinishCall(Bookkeeping, i,
                                             Env(files, lwi)))
                /\ lastOp' = Op(c.fn, c.videoId, "null", NoFile)
        /\ UNCHANGED <<now, files, outsidePlayback>>

\* The request to the last working instance is answered (lines 355-362).
StickyAnswered(i, answer) ==
    /\ i \in 1..Len(calls)
    /\ calls[i].pc = "sticky"
    /\ IF FetchFromInstanceSucceeds(answer)
       THEN Resolved(i, ProcessStreamData(answer),
                     StickyAfter(answer, calls[i].sticky, lastWorkingInstance),
                     calls[i].sticky)
       ELSE /\ lastWorkingInstance' = NoInstance
            /\ calls' = [calls EXCEPT ![i] =
                   [@ EXCEPT !.pc = "race",
                             !.contacted = @ \o InstancesToTry(calls[i].sticky)]]
            /\ UNCHANGED <<now, files, lastResolve, lastOp, prefetchInProgress,
                           prefetchQueue, activePrefetches, outsidePlayback>>

\* Promise.race is won by the first instance whose request succeeds
\* (lines 365-380).
RaceWon(i, winner, answer) ==
    /\ i \in 1..Len(calls)
    /\ calls[i].pc = "race"
    /\ winner \in SeqToSet(InstancesToTry(calls[i].sticky))
    /\ FetchFromInstanceSucceeds(answer)
    /\ Resolved(i, ProcessStreamData(answer),
                StickyAfter(answer, winner, lastWorkingInstance), winner)

\* Mutant: the late answer is processed like the winner's.
LoserAnsweredMutant(i, instance, answer) ==
    /\ i \in 1..Len(calls)
    /\ calls[i].pc \in {"ytdlp", "download"}
    /\ Len(calls[i].contacted) >= Len(PIPED_INSTANCES)
    /\ instance \in SeqToSet(PIPED_INSTANCES) \ (calls[i].late \cup {calls[i].via})
    /\ FetchFromInstanceSucceeds(answer)
    /\ calls' = [calls EXCEPT ![i].late = @ \cup {instance}]
    /\ lastWorkingInstance' = StickyAfter(answer, instance, lastWorkingInstance)
    /\ UNCHANGED <<now, files, lastResolve, lastOp,
                   prefetchInProgress, prefetchQueue, activePrefetches,
                   outsidePlayback>>

\* The request to a raced instance succeeds after the race was decided, by
\* another instance or by the timeout (lines 365-371): fetchFromInstance
\* returns its result to a promise nobody waits for any more.
LoserAnswered(i, instance, answer) ==
    /\ i \in 1..Len(calls)
    /\ calls[i].pc \in {"ytdlp", "download"}
    /\ Len(calls[i].contacted) >= Len(PIPED_INSTANCES)
    /\ instance \in SeqToSet(PIPED_INSTANCES) \ (calls[i].late \cup {calls[i].via})
    /\ FetchFromInstanceSucceeds(answer)
    /\ calls' = [calls EXCEPT ![i].late = @ \cup {instance}]
    /\ UNCHANGED <<now, files, lastWorkingInstance, lastResolve, lastOp,
                   prefetchInProgress, prefetchQueue, activePrefetches,
                   outsidePlayback>>

\* No instance has succeeded when the timeout promise rejects: yt-dlp is
\* started (lines 374-384 and 401).
RaceTimedOut(i) ==
    /\ i \in 1..Len(calls)
    /\ calls[i].pc = "race"
    /\ calls' = [calls EXCEPT ![i] =
           [@ EXCEPT !.pc = "ytdlp", !.contacted = Append(@, "yt-dlp")]]
    /\ UNCHANGED <<now, files, lastWorkingInstance, lastResolve, lastOp,
                   prefetchInProgress, prefetchQueue, activePrefetches,
                   outsidePlayback>>

\* yt-dlp ends (lines 401-461).
YtdlpAnswered(i, answer) ==
    /\ i \in 1..Len(calls)
    /\ calls[i].pc = "ytdlp"
    /\ Resolved(i, YtdlpResult(answer), lastWorkingInstance, "yt-dlp")

\* Mutant: a body is not written over a file that is already there.
DownloadSettledMutant(i, kind, size) ==
    /\ i \in 1..Len(calls)
    /\ calls[i].pc = "download"
    /\ LET c       == calls[i]
           written == kind = "body" /\ size > 0
           fs      == IF written /\ c.cachedFile \notin DOMAIN files
                      THEN WriteFile(files, c.cachedFile, size, now)
                      ELSE files
       IN  /\ files' = fs
           /\ SetBookkeeping(FinishCall(Bookkeeping, i,
                  Env(fs, lastWorkingInstance)))
           /\ lastOp' = Op(c.fn, c.videoId,
                           IF written THEN "file" ELSE "null",
                           IF written THEN c.cachedFile ELSE NoFile)
    /\ UNCHANGED <<now, lastWorkingInstance, lastResolve, outsidePlayback>>

\* The download of the chosen format ends: an HTTP error, a failure or the
\* 30 s abort ("failed"), or a body of `size` units, which is written to
\* the cache file unless it is empty (lines 786-829 and 1136-1163).
DownloadSettled(i, kind, size) ==
    /\ i \in 1..Len(calls)
    /\ calls[i].pc = "download"
    /\ LET c       == calls[i]
           written == kind = "body" /\ size > 0
           fs      == IF written THEN WriteFile(files, c.cachedFile, size, now)
                      ELSE files
       IN  /\ files' = fs
           /\ SetBookkeeping(FinishCall(Bookkeeping, i,
                  Env(fs, lastWorkingInstance)))
           /\ lastOp' = Op(c.fn, c.videoId,
                           IF written THEN "file" ELSE "null",
                           IF written THEN c.cachedFile ELSE NoFile)
    /\ UNCHANGED <<now, lastWorkingInstance, lastResolve, outsidePlayback>>

\* fs.writeFileSync(cachedFile, buffer), lines 813 and 1154, as the file
\* system sees it.  The call opens cachedFile itself with flag 'w', which
\* creates it or truncates it to nothing, then writes the buffer into it
\* and closes it.  JavaScript runs nothing in between (pc "write"), but the
\* file is in the directory all along for whoever reads it from outside
\* this thread.  WriteFileSyncOpened: the body has arrived, not empty, and
\* the file is open and empty.
WriteFileSyncOpened(i) ==
    /\ i \in 1..Len(calls)
    /\ calls[i].pc = "download"
    /\ files' = WriteFile(files, calls[i].cachedFile, 0, now)
    /\ calls' = [calls EXCEPT ![i].pc = "write"]
    /\ UNCHANGED <<now, lastWorkingInstance, lastResolve, lastOp,
                   prefetchInProgress, prefetchQueue, activePrefetches,
                   outsidePlayback>>

\* The size units of the buffer are in the file and writeFileSync returns;
\* the call runs to its end (lines 815-819 and 1155-1169).
WriteFileSyncReturned(i, size) ==
    /\ i \in 1..Len(calls)
    /\ calls[i].pc = "write"
    /\ size > 0
    /\ LET c  == calls[i]
           fs == WriteFile(files, c.cachedFile, size, now)
       IN  /\ files' = fs
           /\ SetBookkeeping(FinishCall(Bookkeeping, i,
                  Env(fs, lastWorkingInstance)))
           /\ lastOp' = Op(c.fn, c.videoId, "file", c.cachedFile)
    /\ UNCHANGED <<now, lastWorkingInstance, lastResolve, outsidePlayback>>

\* prefetchVideos, lines 1190-1211.  lastOp keeps the argument, whether the
\* scheduler was idle with an empty cache directory, and the ids whose
\* download this call started.
PrefetchVideos(videoIds) ==
    LET env == Env(files, lastWorkingInstance)
        st  == DrainWhileIdle(EnqueueAll(Bookkeeping, videoIds, env), env)
    IN  /\ SetBookkeeping(st)
        /\ lastOp' = [fn |-> "prefetchVideos", videoIds |-> videoIds,
                      idle |-> /\ calls = <<>>
                               /\ prefetchQueue = <<>>
                               /\ files = EmptyMap,
                      started |-> [k \in 1..(Len(st.calls) - Len(calls)) |->
                                      st.calls[Len(calls) + k].videoId]]
        /\ UNCHANGED <<now, files, lastWorkingInstance, lastResolve,
                       outsidePlayback>>

\* Mutant: the scheduler is reset as a whole.
ClearedMutant(st) ==
    [st EXCEPT !.queue = <<>>, !.inProgress = {}, !.active = 0]

\* prefetchQueue.length = 0, line 1217
Cleared(st) == [st EXCEPT !.queue = <<>>]

\* clearPrefetchQueue, lines 1216-1219
ClearPrefetchQueue ==
    /\ SetBookkeeping(Cleared(Bookkeeping))
    /\ lastOp' = [fn |-> "clearPrefetchQueue",
                  dropped |-> prefetchQueue,
                  inFlight |-> prefetchInProgress]
    /\ UNCHANGED <<now, files, lastWorkingInstance, lastResolve,
                   outsidePlayback>>

---------------------------------------------------------------------------
(* downloadSong, lines 841-1069.  One call at a time; pc is the await it   *)
(* is suspended at.  Every await settles either way: rejected says it      *)
(* threw.                                                                  *)

NoDownload == [pc |-> "none"]

\* The outer catch, lines 1062-1068.
DownloadSongFailed(error) ==
    /\ downloadCall' = NoDownload
    /\ lastDownload' = [fn |-> "downloadSong", success |-> FALSE,
                        path |-> <<>>, error |-> error,
                        filePath |-> IF "filePath" \in DOMAIN downloadCall
                                     THEN downloadCall.filePath ELSE <<>>]
    /\ UNCHANGED downloaded

\* return { success: true, path: filePath }, lines 937 and 1060
DownloadSongSucceeded ==
    /\ downloadCall' = NoDownload
    /\ lastDownload' = [fn |-> "downloadSong", success |-> TRUE,
                        path |-> << downloadCall.filePath >>, error |-> "",
                        filePath |-> downloadCall.filePath]
    /\ UNCHANGED downloaded

outsideDownload == <<clockVars, cacheVars, fsVars, resolverVars, prefetchVars,
                     ytVars, selVars, qmVars>>

\* Lines 841-852: up to await getUserSettings().
DownloadSong(videoId, title) ==
    /\ downloadCall = NoDownload
    /\ downloadCall' = [pc |-> "getUserSettings", videoId |-> videoId,
                        title |-> title]
    /\ UNCHANGED <<downloaded, lastDownload, outsideDownload>>

\* Lines 852-888: the folders are made and fetchStreamInfo is awaited.
DownloadSongSettingsRead(rejected) ==
    /\ downloadCall.pc = "getUserSettings"
    /\ IF rejected
       THEN DownloadSongFailed("settings")
       ELSE /\ downloadCall' = [downloadCall EXCEPT !.pc = "fetchStreamInfo"]
            /\ UNCHANGED <<downloaded, lastDownload>>
    /\ UNCHANGED outsideDownload

\* Lines 888-916: fetchStreamInfo returned r or threw; the best format is
\* picked, the file path fixed and the download requested.
DownloadSongResolved(rejected, r) ==
    /\ downloadCall.pc = "fetchStreamInfo"
    /\ LET bestAudio == GetHighestQualityAudio(r.audioFormats) IN
       IF rejected
       THEN DownloadSongFailed("fetchStreamInfo")
       ELSE IF ~r.playable
       THEN DownloadSongFailed(r.statusMSG)
       ELSE IF bestAudio = <<>> \/ ~bestAudio[1].url.present
       THEN DownloadSongFailed("No valid audio stream found")
       ELSE /\ downloadCall' =
                   [pc |-> "fetch", videoId |-> downloadCall.videoId,
                    title |-> downloadCall.title,
                    filePath |-> << downloadCall.title,
                                    IF bestAudio[1].audioCodec = "mp4a"
                                    THEN ".m4a" ELSE ".opus" >>]
            /\ UNCHANGED <<downloaded, lastDownload>>
    /\ UNCHANGED outsideDownload

\* Lines 909-922: the response arrived (ok or not) or fetch threw.
DownloadSongFetched(rejected, ok) ==
    /\ downloadCall.pc = "fetch"
    /\ IF rejected THEN DownloadSongFailed("fetch")
       ELSE IF ~ok THEN DownloadSongFailed("Download failed")
       ELSE /\ downloadCall' = [downloadCall EXCEPT !.pc = "arrayBuffer"]
            /\ UNCHANGED <<downloaded, lastDownload>>
    /\ UNCHANGED outsideDownload

\* Lines 922-934: the body of size units was read, or reading threw; a
\* body that is not empty is written (writeFileSync may throw, written
\* says it did not) and isSongWithPathAvailable is awaited.
DownloadSongBodyRead(rejected, size, written) ==
    /\ downloadCall.pc = "arrayBuffer"
    /\ IF rejected THEN DownloadSongFailed("arrayBuffer")
       ELSE IF size = 0 THEN DownloadSongFailed("Downloaded empty buffer")
       ELSE IF ~written THEN DownloadSongFailed("writeFileSync")
       ELSE /\ downloaded' = MapPut(downloaded, downloadCall.filePath, size)
            /\ downloadCall' =
                   [downloadCall EXCEPT !.pc = "isSongWithPathAvailable"]
            /\ UNCHANGED lastDownload
    /\ UNCHANGED outsideDownload

\* Lines 934-941: isSongWithPathAvailable answered songExists, or threw:
\* the await is outside the inner try, so the outer catch takes it.
DownloadSongLookedUp(rejected, songExists) ==
    /\ downloadCall.pc = "isSongWithPathAvailable"
    /\ IF rejected THEN DownloadSongFailed("isSongWithPathAvailable")
       ELSE IF songExists THEN DownloadSongSucceeded
       ELSE /\ downloadCall' = [downloadCall EXCEPT !.pc = "library"]
            /\ UNCHANGED <<downloaded, lastDownload>>
    /\ UNCHANGED outsideDownload

\* Lines 940-1060: the inner try, which adds the song to the library, ran
\* to its end or threw into its own catch (lines 1055-1058).
DownloadSongAdded(rejected) ==
    /\ downloadCall.pc = "library"
    /\ DownloadSongSucceeded
    /\ UNCHANGED outsideDownload

---------------------------------------------------------------------------
(* getYouTubeStreamUrl.ts: the Innertube clients behind nora-stream://     *)

\* 30 * 60 * 1000 ms, in minutes
URL_CACHE_TTL == 30

\* A url as far as the code looks at it: whether it starts with 'http', and
\* who issued it.
YtUrl(http, client) == [http |-> http, client |-> client]

\* A format of an Innertube answer: cipher says whether it carries a
\* signature cipher, deciphered what decipher() gives (<<>>: it throws or
\* gives no string), url its url field (<<>>: none).
YtFormat(audio, cipher, deciphered, url) ==
    [audio |-> audio, cipher |-> cipher, deciphered |-> deciphered,
     url |-> url]

YtInfo(threw, status, chosen, adaptive) ==
    [threw |-> threw, status |-> status, chosen |-> chosen,
     adaptive |-> adaptive]

\* Strategy 3, lines 126-153: the first audio format of adaptive_formats
\* with an http url, direct or deciphered.
RECURSIVE FirstAlternativeUrl(_)
FirstAlternativeUrl(audioFormats) ==
    IF audioFormats = <<>> THEN <<>>
    ELSE LET alt == Head(audioFormats) IN
         IF alt.url # <<>> /\ alt.url[1].http THEN alt.url
         ELSE IF alt.cipher /\ alt.deciphered # <<>> /\ alt.deciphered[1].http
              THEN alt.deciphered
              ELSE FirstAlternativeUrl(Tail(audioFormats))

\* tryGetAudioWithClient, lines 65-162: the url (<<u>>) or null (<<>>).
TryGetAudioWithClient(info) ==
    IF info.threw THEN <<>>
    ELSE IF info.status \in {"ERROR", "LOGIN_REQUIRED"} THEN <<>>
    ELSE IF info.chosen = <<>> THEN <<>>
    ELSE LET format == info.chosen[1]
             step1  == IF /\ format.cipher
                          /\ format.deciphered # <<>>
                          /\ format.deciphered[1].http
                       THEN format.deciphered ELSE <<>>
             step2  == IF step1 = <<>> /\ format.url # <<>>
                       THEN format.url ELSE step1
         IN  IF step2 # <<>> /\ step2[1].http THEN step2
             ELSE FirstAlternativeUrl(
                      SelectSeq(info.adaptive, LAMBDA f : f.audio))

\* The cascade of lines 192-205: the client tried after those in attempts.
\* Mutant: WEB is tried first.
NextClientMutant(attempts) ==
    IF attempts = <<>> THEN "WEB"
    ELSE IF attempts[Len(attempts)] = "WEB" THEN "ANDROID"
    ELSE IF attempts[Len(attempts)] = "ANDROID" THEN "IOS"
    ELSE "none"

NextClient(attempts) ==
    IF attempts = <<>> THEN "ANDROID"
    ELSE IF attempts[Len(attempts)] = "ANDROID" THEN "WEB"
    ELSE IF attempts[Len(attempts)] = "WEB" THEN "IOS"
    ELSE "none"

MaxYtCalls == 1

\* A running getYouTubeStreamUrl: attempts are the clients asked so far,
\* got what those that have answered returned.
YtCall(videoId, pc, attempts) ==
    [videoId |-> videoId, pc |-> pc, attempts |-> attempts, got |-> <<>>]

YtOp(videoId, url, attempts, cached) ==
    [fn |-> "getYouTubeStreamUrl", videoId |-> videoId, url |-> url,
     attempts |-> attempts, cached |-> cached]

outsideYt == <<now, cacheVars, fsVars, resolverVars, prefetchVars, selVars, dlVars, qmVars>>

\* getYouTubeStreamUrl up to its first await (lines 167-193): a memoized
\* url younger than URL_CACHE_TTL is returned, else Innertube is awaited.
GetYouTubeStreamUrl(videoId) ==
    /\ Len(ytCalls) < MaxYtCalls
    /\ IF /\ videoId \in DOMAIN urlCache
          /\ now - urlCache[videoId].cachedAt < URL_CACHE_TTL
       THEN /\ lastYt' = YtOp(videoId, <<urlCache[videoId].url>>, <<>>, TRUE)
            /\ UNCHANGED ytCalls
       ELSE /\ ytCalls' = Append(ytCalls,
                   IF youtube
                   THEN YtCall(videoId, "client", <<NextClient(<<>>)>>)
                   ELSE YtCall(videoId, "init", <<>>))
            /\ UNCHANGED lastYt
    /\ UNCHANGED <<youtube, urlCache, outsideYt>>

\* The ids, among those used here, that the test of handleStreamProtocol.ts
\* line 36, !videoId || videoId.length < 10, turns away.
ShortIds == {"abc"}

\* handleStreamProtocol, lines 21-44: Response 400 for a short id, else
\* getYouTubeStreamUrl is awaited.
HandleStreamProtocol(videoId) ==
    IF videoId \in ShortIds
    THEN /\ lastYt' = [fn |-> "handleStreamProtocol", videoId |-> videoId,
                       url |-> <<>>, attempts |-> <<>>, cached |-> FALSE]
         /\ UNCHANGED <<youtube, urlCache, ytCalls, outsideYt>>
    ELSE GetYouTubeStreamUrl(videoId)

\* Innertube.create ends for call i (lines 16-33 and 183): the singleton is
\* set and the first client is asked, or the call ends in its catch block.
InnertubeCreated(i, ok) ==
    /\ i \in 1..Len(ytCalls)
    /\ ytCalls[i].pc = "init"
    /\ IF ok
       THEN /\ youtube' = TRUE
            /\ ytCalls' = [ytCalls EXCEPT ![i] =
                   YtCall(@.videoId, "client", <<NextClient(<<>>)>>)]
            /\ UNCHANGED lastYt
       ELSE /\ ytCalls' = RemoveAt(ytCalls, i)
            /\ lastYt' = YtOp(ytCalls[i].videoId, <<>>, <<>>, FALSE)
            /\ UNCHANGED youtube
    /\ UNCHANGED <<urlCache, outsideYt>>

\* The end of getYouTubeStreamUrl, lines 207-216: null is returned before
\* urlCache.set is reached; a url is memoized.
\* Mutant: the outcome is memoized whatever it is.
MemoizedMutant(cache, videoId, url, t) ==
    MapPut(cache, videoId,
           [url |-> IF url = <<>> THEN YtUrl(FALSE, "none") ELSE url[1],
            cachedAt |-> t])

Memoized(cache, videoId, url, t) ==
    IF url = <<>> THEN cache
    ELSE MapPut(cache, videoId, [url |-> url[1], cachedAt |-> t])

\* Mutant: the if (!url) tests of lines 196 and 202 are left out.
ClientAnsweredMutant(i, info) ==
    /\ i \in 1..Len(ytCalls)
    /\ ytCalls[i].pc = "client"
    /\ LET c   == ytCalls[i]
           url == TryGetAudioWithClient(info)
       IN  IF NextClient(c.attempts) # "none"
           THEN /\ ytCalls' = [ytCalls EXCEPT
                       ![i].attempts = Append(@, NextClient(c.attempts)),
                       ![i].got = Append(@, url)]
                /\ UNCHANGED <<urlCache, lastYt>>
           ELSE /\ urlCache' = Memoized(urlCache, c.videoId, url, now)
                /\ ytCalls' = RemoveAt(ytCalls, i)
                /\ lastYt' = YtOp(c.videoId, url, c.attempts, FALSE)
    /\ UNCHANGED <<youtube, outsideYt>>

\* The client call i waits for answers with info (lines 193-222).
ClientAnswered(i, info) ==
    /\ i \in 1..Len(ytCalls)
    /\ ytCalls[i].pc = "client"
    /\ LET c   == ytCalls[i]
           url == TryGetAudioWithClient(info)
       IN  IF url = <<>> /\ NextClient(c.attempts) # "none"
           THEN /\ ytCalls' = [ytCalls EXCEPT
                       ![i].attempts = Append(@, NextClient(c.attempts)),
                       ![i].got = Append(@, url)]
                /\ UNCHANGED <<urlCache, lastYt>>
           ELSE /\ urlCache' = Memoized(urlCache, c.videoId, url, now)
                /\ ytCalls' = RemoveAt(ytCalls, i)
                /\ lastYt' = YtOp(c.videoId, url, c.attempts, FALSE)
    /\ UNCHANGED <<youtube, outsideYt>>

\* The setInterval of lines 50-58.
UrlCacheCleanup ==
    /\ urlCache' = Restrict(urlCache,
           { v \in DOMAIN urlCache :
               ~(now - urlCache[v].cachedAt > URL_CACHE_TTL) })
    /\ UNCHANGED <<youtube, ytCalls, lastYt, outsideYt>>

---------------------------------------------------------------------------
(* OnlineQueueManager (renderer): the queue of online songs and the calls  *)
(* it makes to the player.  A song is its id.                              *)

NoSong == "null"

NoCall == [fn |-> "none", arg |-> <<>>, at |-> -1, active |-> FALSE,
           tick |-> FALSE]

NoEvent == [kind |-> "none", song |-> NoSong, index |-> -1, tick |-> FALSE]

MaxPlayCalls == 2

outsideQueue == <<clockVars, cacheVars, fsVars, resolverVars, prefetchVars,
                  ytVars, selVars, dlVars>>

\* The last call of a method: its name and arguments, and the position and
\* isActive it found.
Called(fn, arg) ==
    lastCall' = [fn |-> fn, arg |-> arg, at |-> currentIndex,
                 active |-> isActive, tick |-> ~lastCall.tick]

Event(kind, song, index) ==
    [kind |-> kind, song |-> song, index |-> index, tick |-> ~lastEvent.tick]

\* playCurrentSong up to its await (lines 94-122), run with the queue q and
\* the index idx its caller has just set.
PlayCurrentSong(q, idx) ==
    IF ~player \/ idx < 0 \/ idx >= Len(q)
    THEN UNCHANGED <<playingId, playCalls, lastEvent>>
    ELSE /\ playingId' = q[idx + 1]
         /\ playCalls' = Append(playCalls,
                                [song |-> q[idx + 1], pc |-> "getStreamUrl"])
         /\ UNCHANGED lastEvent

\* The body of stop(), lines 227-234.
Stopped ==
    /\ isActive' = FALSE
    /\ playingId' = NoSong
    /\ currentIndex' = -1
    /\ lastEvent' = Event("notifySongChange", NoSong, -1)
    /\ UNCHANGED <<queue, playCalls>>

\* setPlayer, lines 33-47
SetPlayer ==
    /\ ~player
    /\ player' = TRUE
    /\ Called("setPlayer", <<>>)
    /\ UNCHANGED <<queue, currentIndex, isActive, playingId, playCalls,
                   lastEvent, outsideQueue>>

\* setQueueAndPlay, lines 52-75
SetQueueAndPlay(songs, startIndex) ==
    /\ Len(playCalls) < MaxPlayCalls
    /\ queue' = songs
    /\ currentIndex' = startIndex
    /\ isActive' = TRUE
    /\ PlayCurrentSong(songs, startIndex)
    /\ Called("setQueueAndPlay", <<songs, startIndex>>)
    /\ UNCHANGED <<player, outsideQueue>>

\* playSingle, lines 80-89
PlaySingle(song) ==
    /\ Len(playCalls) < MaxPlayCalls
    /\ queue' = <<song>>
    /\ currentIndex' = 0
    /\ isActive' = TRUE
    /\ PlayCurrentSong(<<song>>, 0)
    /\ Called("playSingle", <<song>>)
    /\ UNCHANGED <<player, outsideQueue>>

\* getStreamUrl answers call i (lines 122-134): with null or a rejection the
\* loading state is cleared and the call ends, with a url
\* player.playOnlineSong is called for the song of the call.
StreamUrlArrived(i, streamUrl) ==
    /\ i \in 1..Len(playCalls)
    /\ playCalls[i].pc = "getStreamUrl"
    /\ IF streamUrl \in {"null", "threw"}
       THEN /\ playCalls' = RemoveAt(playCalls, i)
            /\ lastEvent' = Event("clearLoadingState", playCalls[i].song,
                                  currentIndex)
       ELSE /\ playCalls' = [playCalls EXCEPT ![i].pc = "playOnlineSong"]
            /\ lastEvent' = Event("playOnlineSong", playCalls[i].song,
                                  currentIndex)
    /\ UNCHANGED <<queue, currentIndex, isActive, player, playingId, lastCall,
                   outsideQueue>>

\* player.playOnlineSong returns to call i (lines 134-140): the subscribers
\* are told the song of the call and the index of that moment; if it threw,
\* the loading state is cleared.
PlayOnlineSongReturned(i, threw) ==
    /\ i \in 1..Len(playCalls)
    /\ playCalls[i].pc = "playOnlineSong"
    /\ playCalls' = RemoveAt(playCalls, i)
    /\ lastEvent' = Event(IF threw THEN "clearLoadingState"
                          ELSE "notifySongChange",
                          playCalls[i].song, currentIndex)
    /\ UNCHANGED <<queue, currentIndex, isActive, player, playingId, lastCall,
                   outsideQueue>>

\* Mutant: the position wraps around at the end of the queue.
SkippedToNextMutant ==
    IF ~isActive \/ Len(queue) = 0
    THEN UNCHANGED <<queue, currentIndex, isActive, playingId, playCalls,
                     lastEvent>>
    ELSE IF currentIndex < Len(queue) - 1
         THEN /\ currentIndex' = currentIndex + 1
              /\ PlayCurrentSong(queue, currentIndex + 1)
              /\ UNCHANGED <<queue, isActive>>
         ELSE /\ currentIndex' = 0
              /\ PlayCurrentSong(queue, 0)
              /\ UNCHANGED <<queue, isActive>>

\* The body of skipToNext, lines 176-188.
SkippedToNext ==
    IF ~isActive \/ Len(queue) = 0
    THEN UNCHANGED <<queue, currentIndex, isActive, playingId, playCalls,
                     lastEvent>>
    ELSE IF currentIndex < Len(queue) - 1
         THEN /\ currentIndex' = currentIndex + 1
              /\ PlayCurrentSong(queue, currentIndex + 1)
              /\ UNCHANGED <<queue, isActive>>
         ELSE Stopped

\* The body of skipToPrevious, lines 193-211; late: the player is more than
\* 5 seconds into the song (audio.currentTime > 5).
SkippedToPrevious(late) ==
    IF ~isActive \/ Len(queue) = 0
    THEN UNCHANGED <<queue, currentIndex, isActive, playingId, playCalls,
                     lastEvent>>
    ELSE IF player /\ late
         THEN /\ lastEvent' = Event("currentTime = 0", playingId, currentIndex)
              /\ UNCHANGED <<queue, currentIndex, isActive, playingId,
                             playCalls>>
         ELSE IF currentIndex > 0
              THEN /\ currentIndex' = currentIndex - 1
                   /\ PlayCurrentSong(queue, currentIndex - 1)
                   /\ UNCHANGED <<queue, isActive>>
              ELSE /\ PlayCurrentSong(queue, currentIndex)
                   /\ UNCHANGED <<queue, currentIndex, isActive>>

SkipToNext ==
    /\ Len(playCalls) < MaxPlayCalls
    /\ SkippedToNext
    /\ Called("skipToNext", <<>>)
    /\ UNCHANGED <<player, outsideQueue>>

SkipToPrevious(late) ==
    /\ Len(playCalls) < MaxPlayCalls
    /\ SkippedToPrevious(late)
    /\ Called("skipToPrevious", <<late>>)
    /\ UNCHANGED <<player, outsideQueue>>

\* The listeners of lines 146-171, called when the player emits
\* playbackComplete, skipForwardRequest or skipBackwardRequest.
PlayerEmitted(event, late) ==
    /\ player
    /\ Len(playCalls) < MaxPlayCalls
    /\ IF ~isActive
       THEN UNCHANGED <<queue, currentIndex, isActive, playingId, playCalls,
                        lastEvent>>
       ELSE IF event = "skipBackwardRequest"
            THEN SkippedToPrevious(late)
            ELSE SkippedToNext
    /\ Called(event, <<>>)
    /\ UNCHANGED <<player, outsideQueue>>

\* jumpToIndex, lines 216-222
JumpToIndex(index) ==
    /\ Len(playCalls) < MaxPlayCalls
    /\ IF ~isActive \/ index < 0 \/ index >= Len(queue)
       THEN UNCHANGED <<queue, currentIndex, isActive, playingId, playCalls,
                        lastEvent>>
       ELSE /\ currentIndex' = index
            /\ PlayCurrentSong(queue, index)
            /\ UNCHANGED <<queue, isActive>>
    /\ Called("jumpToIndex", <<index>>)
    /\ UNCHANGED <<player, outsideQueue>>

\* stop, lines 227-234
Stop ==
    /\ Stopped
    /\ Called("stop", <<>>)
    /\ UNCHANGED <<player, outsideQueue>>

\* clear, lines 239-247
Clear ==
    /\ queue' = <<>>
    /\ currentIndex' = -1
    /\ isActive' = FALSE
    /\ playingId' = NoSong
    /\ lastEvent' = Event("notifySongChange", NoSong, -1)
    /\ Called("clear", <<>>)
    /\ UNCHANGED <<playCalls, player, outsideQueue>>

---------------------------------------------------------------------------
(* Initial state: the module has just been loaded.                         *)

NoOp == [fn |-> "none"]

NoResolve == [videoId |-> "", expiresAt |-> 0, via |-> "", best |-> <<>>]

NotCalled == [called |-> FALSE, returned |-> <<>>]

\* Everything but the argument handed to getHighestQualityAudio.
Loaded ==
    /\ now = 0
    /\ streamUrlCache = EmptyMap
    /\ dbOps = {}
    /\ lastGet = NoGet
    /\ files = EmptyMap
    /\ protectedSongIds = {}
    /\ lastSweep = NoSweep
    /\ lastWorkingInstance = NoInstance
    /\ calls = <<>>
    /\ lastResolve = NoResolve
    /\ prefetchInProgress = {}
    /\ prefetchQueue = <<>>
    /\ activePrefetches = 0
    /\ lastOp = NoOp
    /\ youtube = FALSE
    /\ urlCache = EmptyMap
    /\ ytCalls = <<>>
    /\ lastYt = NoOp
    /\ selResult = NotCalled
    /\ downloadCall = NoDownload
    /\ downloaded = EmptyMap
    /\ lastDownload = NoOp
    /\ queue = <<>>
    /\ currentIndex = -1
    /\ isActive = FALSE
    /\ player = FALSE
    /\ playingId = NoSong
    /\ playCalls = <<>>
    /\ lastCall = NoCall
    /\ lastEvent = NoEvent

Init == Loaded /\ selInput = <<>>

---------------------------------------------------------------------------
(* The process ends and is started again; the cleanup timer.               *)

\* CACHE_CLEANUP_INTERVAL_MS = 60 * 60 * 1000 ms (line 64), in minutes
CACHE_CLEANUP_INTERVAL == 60

MaxSweeps == 2

\* Mutant: the protected set outlives the process.
ModuleLoadedMutant ==
    \E r \in Swept(files, protectedSongIds, now) :
        /\ files' = r.files
        /\ lastSweep' = [tick |-> ~lastSweep.tick, pass1 |-> r.pass1,
                         pass2 |-> r.pass2, startup |-> TRUE]
        /\ dbOps' = {}
        /\ lastWorkingInstance' = NoInstance
        /\ calls' = <<>>
        /\ prefetchInProgress' = {}
        /\ prefetchQueue' = <<>>
        /\ activePrefetches' = 0
        /\ youtube' = FALSE
        /\ urlCache' = EmptyMap
        /\ ytCalls' = <<>>
        /\ downloadCall' = NoDownload
        /\ UNCHANGED <<now, protectedSongIds, streamUrlCache, lastGet,
                       lastResolve, lastOp, lastYt, selVars, downloaded,
                       lastDownload, qmVars>>

\* The process is started again and the module is loaded: its variables
\* have their initial values (protectedSongIds is the empty Set of line
\* 69), the table and the directories are as the last process left them,
\* and cleanupCache runs at once (line 207).
ModuleLoaded ==
    \E r \in Swept(files, {}, now) :
        /\ files' = r.files
        /\ lastSweep' = [tick |-> ~lastSweep.tick, pass1 |-> r.pass1,
                         pass2 |-> r.pass2, startup |-> TRUE]
        /\ protectedSongIds' = {}
        /\ dbOps' = {}
        /\ lastWorkingInstance' = NoInstance
        /\ calls' = <<>>
        /\ prefetchInProgress' = {}
        /\ prefetchQueue' = <<>>
        /\ activePrefetches' = 0
        /\ youtube' = FALSE
        /\ urlCache' = EmptyMap
        /\ ytCalls' = <<>>
        /\ downloadCall' = NoDownload
        /\ UNCHANGED <<now, streamUrlCache, lastGet, lastResolve, lastOp,
                       lastYt, selVars, downloaded, lastDownload, qmVars>>

\* The timer of line 210 fires CACHE_CLEANUP_INTERVAL after the module was
\* loaded or after it fired last.
CleanupTimerFired ==
    /\ now < MaxSweeps * CACHE_CLEANUP_INTERVAL
    /\ now' = now + CACHE_CLEANUP_INTERVAL
    /\ \E r \in Swept(files, protectedSongIds, now') :
           /\ files' = r.files
           /\ lastSweep' = [tick |-> ~lastSweep.tick, pass1 |-> r.pass1,
                            pass2 |-> r.pass2, startup |-> FALSE]
    /\ UNCHANGED <<protectedSongIds, cacheVars, resolverVars, prefetchVars,
                   ytVars, selVars, dlVars, qmVars>>

---------------------------------------------------------------------------
(* The stream_url_cache on its own.                                        *)

\* The instants at which the cache is looked at: around the expiry of a url
\* that carries expire=6 and around the default expiry of a row saved early.
CacheInstants == {1, DEFAULT_TTL_MIN}

TickCache ==
    /\ \E t \in CacheInstants : AdvanceClockTo(t)
    /\ UNCHANGED <<cacheVars, outsideCache>>

NextCache ==
    \/ \E id \in CacheIds : GetCachedStreamInfo(id)
    \/ \E id \in CacheIds : GetRawCachedStreamInfo(id)
    \/ \E id \in CacheIds : DeleteCachedStreamInfo(id)
    \/ \E id \in CacheIds, fl \in SampleFormatLists :
           SaveStreamInfoToCache(id, fl, <<>>, <<>>)
    \/ \E o \in dbOps : SelectAnswered(o)
    \/ \E o \in dbOps : DeleteCommitted(o)
    \/ \E o \in dbOps : UpsertCommitted(o)
    \/ TickCache

SpecCache == Init /\ [][NextCache]_vars

---------------------------------------------------------------------------
(* Upserts of one id, with and without title and duration.                 *)

NextUpsert ==
    \/ \E fl \in SampleFormatLists, title \in {<<>>, << "t1" >>, << "t2" >>},
          duration \in {<<>>, << 200 >>} :
           SaveStreamInfoToCache("a", fl, title, duration)
    \/ \E o \in dbOps : UpsertCommitted(o)
    \/ DeleteCachedStreamInfo("a")
    \/ \E o \in dbOps : DeleteCommitted(o)
    \/ TickCache

SpecUpsert == Init /\ [][NextUpsert]_vars

---------------------------------------------------------------------------
(* The cache directory and its janitor on their own.                       *)

JanitorFiles ==
    { FileName("x", ".m4a"), FileName("x", ".webm"), FileName("y", ".m4a") }

\* 3 GB and 4.5 GB, in units of 32 bytes
JanitorSizes == {93750000, 140625000}

JanitorInstants == {maxAge + 1}

TickJanitor ==
    /\ \E t \in JanitorInstants : AdvanceClockTo(t)
    /\ UNCHANGED <<cacheVars, outsideCache>>

NextJanitor ==
    \/ CleanupCache
    \/ \E ids \in SUBSET {"x", "MPEDx", "y"} : UpdateProtectedSongIds(ids)
    \/ \E n \in JanitorFiles, size \in JanitorSizes :
           CacheFileWritten(n.videoId, n.ext, size)
    \/ \E n \in DOMAIN files : ReadCacheFile(n)
    \/ TickJanitor

SpecJanitor == Init /\ [][NextJanitor]_vars

---------------------------------------------------------------------------
(* Sweeps over files of different ages.                                    *)

\* The files of x and y have 1.5 GB, that of z 3 GB, in units of 32 bytes
SweepSize(videoId) == IF videoId = "z" THEN 93750000 ELSE 46875000

\* 15, 35 and 40 days after the start, in minutes
SweepInstants == {21600, 50400, 57600}

TickSweep ==
    /\ \E t \in SweepInstants : AdvanceClockTo(t)
    /\ UNCHANGED <<cacheVars, outsideCache>>

NextSweep ==
    \/ CleanupCache
    \/ \E ids \in {{}, {"x"}} : UpdateProtectedSongIds(ids)
    \/ \E id \in {"x", "y", "z"} :
           CacheFileWritten(id, ".m4a", SweepSize(id))
    \/ \E n \in DOMAIN files : ReadCacheFile(n)
    \/ TickSweep

SpecSweep == Init /\ [][NextSweep]_vars

---------------------------------------------------------------------------
(* The janitor over restarts of the process.                               *)

NextRestart ==
    \/ ModuleLoaded
    \/ CleanupTimerFired
    \/ \E ids \in {{}, {"x"}, {"MPEDy"}} : UpdateProtectedSongIds(ids)
    \/ \E n \in JanitorFiles : CacheFileWritten(n.videoId, n.ext, 93750000)
    \/ \E n \in DOMAIN files : ReadCacheFile(n)

SpecRestart == Init /\ [][NextRestart]_vars

---------------------------------------------------------------------------
(* The prefetch scheduler, with getStreamUrl calls beside it.              *)

PipedUp ==
    PipedAnswer("ok", FALSE, << PipedStream(140, "mp4a.40.2", 128, PlainUrl) >>)

PipedWithoutUrls ==
    PipedAnswer("ok", FALSE, << PipedStream(251, "opus", 160, NoUrl) >>)

PipedDown == PipedAnswer("timeout", FALSE, <<>>)

YtdlpThrew == [threw |-> TRUE, formats |-> <<>>]

YtdlpDump(formats) == [threw |-> FALSE, formats |-> formats]

YtdlpOpus == YtdlpDump(<< YtdlpFormat(251, "opus", 160, PlainUrl, TRUE) >>)

PrefetchBursts == { << "a", "b", "a" >>, << "MPEDc", "d" >> }

PrefetchPlayIds == {"MPEDc"}

\* Here no Piped instance has a usable stream: every resolution ends in
\* yt-dlp or fails.
NextPrefetch ==
    \/ \E ids \in PrefetchBursts : PrefetchVideos(ids)
    \/ ClearPrefetchQueue
    \/ \E id \in PrefetchPlayIds : GetStreamUrl(id)
    \/ \E i \in 1..Len(calls) :
           RaceWon(i, PIPED_INSTANCES[1], PipedWithoutUrls)
    \/ \E i \in 1..Len(calls) : RaceTimedOut(i)
    \/ \E i \in 1..Len(calls), a \in {YtdlpThrew, YtdlpOpus} :
           YtdlpAnswered(i, a)
    \/ \E i \in 1..Len(calls) : DownloadSettled(i, "http", 0)
    \/ \E i \in 1..Len(calls), size \in {0, MIN_CACHED_SIZE + 1} :
           DownloadSettled(i, "body", size)

SpecPrefetch == Init /\ [][NextPrefetch]_vars

---------------------------------------------------------------------------
(* The cache directory under getStreamUrl, the prefetcher, the janitor and *)
(* the playback consumer together.  While a call is inside writeFileSync   *)
(* only the consumer and the clock move.                                   *)

\* No call is inside writeFileSync: the JavaScript thread is free.
ThreadFree == \A i \in 1..Len(calls) : calls[i].pc # "write"

NextByteCache ==
    \/ ThreadFree /\ GetStreamUrl("c")
    \/ ThreadFree /\ PrefetchVideos(<< "c" >>)
    \/ ThreadFree /\ ClearPrefetchQueue
    \/ ThreadFree /\ \E ids \in {{}, {"MPEDc"}} : UpdateProtectedSongIds(ids)
    \/ ThreadFree /\ CleanupCache
    \/ ThreadFree /\ \E i \in 1..Len(calls), a \in {PipedUp, PipedWithoutUrls} :
                         RaceWon(i, PIPED_INSTANCES[1], a)
    \/ ThreadFree /\ \E i \in 1..Len(calls) : StickyAnswered(i, PipedUp)
    \/ ThreadFree /\ \E i \in 1..Len(calls) : DownloadSettled(i, "http", 0)
    \/ ThreadFree /\ \E i \in 1..Len(calls) : DownloadSettled(i, "body", 0)
    \/ ThreadFree /\ \E i \in 1..Len(calls) : WriteFileSyncOpened(i)
    \/ \E i \in 1..Len(calls), size \in {1, MIN_CACHED_SIZE + 1} :
           WriteFileSyncReturned(i, size)
    \/ \E n \in DOMAIN files : ReadCacheFile(n)
    \/ TickJanitor

SpecByteCache == Init /\ [][NextByteCache]_vars

---------------------------------------------------------------------------
(* getStreamUrl for one id, every provider path open.                      *)

ResolverPlayIds == {"c", "MPEDc"}

TickResolver ==
    /\ AdvanceClockTo(CACHE_FRESH_MIN)
    /\ UNCHANGED <<cacheVars, outsideCache>>

NextResolver ==
    \/ \E id \in ResolverPlayIds : GetStreamUrl(id)
    \/ PrefetchVideos(<< "c" >>)
    \/ \E i \in 1..Len(calls), a \in {PipedUp, PipedDown, PipedWithoutUrls} :
           StickyAnswered(i, a)
    \/ \E i \in 1..Len(calls), w \in {PIPED_INSTANCES[1], PIPED_INSTANCES[2]},
          a \in {PipedUp, PipedWithoutUrls} :
           RaceWon(i, w, a)
    \/ \E i \in 1..Len(calls) : RaceTimedOut(i)
    \/ \E i \in 1..Len(calls), a \in {YtdlpThrew, YtdlpOpus} :
           YtdlpAnswered(i, a)
    \/ \E i \in 1..Len(calls) : DownloadSettled(i, "http", 0)
    \/ \E i \in 1..Len(calls),
          size \in {0, MIN_CACHED_SIZE, MIN_CACHED_SIZE + 1} :
           DownloadSettled(i, "body", size)
    \/ TickResolver

SpecResolver == Init /\ [][NextResolver]_vars

---------------------------------------------------------------------------
(* Provider answers that mix streams with and without a url.               *)

\* The stream of the highest bitrate and preferred itag has no url.
PipedMixed ==
    PipedAnswer("ok", FALSE,
                << PipedStream(251, "opus", 160, NoUrl),
                   PipedStream(139, "mp4a.40.2", 48, PlainUrl) >>)

\* yt-dlp's dump: an audio format without url, a format with video, and two
\* audio formats with a url.
YtdlpMixed ==
    YtdlpDump(<< YtdlpFormat(251, "opus", 160, NoUrl, TRUE),
                 YtdlpFormat(18, "mp4a.40.2", 500, PlainUrl, FALSE),
                 YtdlpFormat(249, "opus", 50, PlainUrl, TRUE),
                 YtdlpFormat(250, "opus", 70, PlainUrl, TRUE) >>)

NextProviders ==
    \/ GetStreamUrl("c")
    \/ PrefetchVideos(<< "MPEDd" >>)
    \/ \E i \in 1..Len(calls),
          a \in {PipedMixed, PipedWithoutUrls, PipedDown} :
           StickyAnswered(i, a)
    \/ \E i \in 1..Len(calls), a \in {PipedMixed, PipedWithoutUrls} :
           RaceWon(i, PIPED_INSTANCES[3], a)
    \/ \E i \in 1..Len(calls),
          instance \in {PIPED_INSTANCES[1], PIPED_INSTANCES[3]} :
           LoserAnswered(i, instance, PipedUp)
    \/ \E i \in 1..Len(calls) : RaceTimedOut(i)
    \/ \E i \in 1..Len(calls), a \in {YtdlpMixed, YtdlpThrew} :
           YtdlpAnswered(i, a)
    \/ \E i \in 1..Len(calls) : DownloadSettled(i, "http", 0)
    \/ \E i \in 1..Len(calls) :
           DownloadSettled(i, "body", MIN_CACHED_SIZE + 1)

SpecProviders == Init /\ [][NextProviders]_vars

---------------------------------------------------------------------------
(* Every Piped instance is down: yt-dlp behind fetchStreamInfo, and the    *)
(* Innertube clients of getYouTubeStreamUrl.                               *)

YtBlocked == YtInfo(FALSE, "LOGIN_REQUIRED", <<>>, <<>>)

YtThrew == YtInfo(TRUE, "OK", <<>>, <<>>)

\* The chosen format has a plain https url.
YtDirect(client) ==
    YtInfo(FALSE, "OK",
           << YtFormat(TRUE, FALSE, <<>>, << YtUrl(TRUE, client) >>) >>, <<>>)

\* The chosen format cannot be deciphered and has no url; the second audio
\* format of adaptive_formats deciphers.
YtAlternative(client) ==
    YtInfo(FALSE, "OK",
           << YtFormat(TRUE, TRUE, <<>>, <<>>) >>,
           << YtFormat(FALSE, FALSE, <<>>, << YtUrl(TRUE, "video") >>),
              YtFormat(TRUE, TRUE, <<>>, <<>>),
              YtFormat(TRUE, TRUE, << YtUrl(TRUE, client) >>, <<>>) >>)

YtAnswers(client) ==
    { YtBlocked, YtThrew, YtDirect(client), YtAlternative(client) }

FallbackInstants == {URL_CACHE_TTL, URL_CACHE_TTL + 1}

TickFallback ==
    /\ \E t \in FallbackInstants : AdvanceClockTo(t)
    /\ UNCHANGED <<cacheVars, outsideCache>>

NextFallback ==
    \/ GetStreamUrl("c")
    \/ \E i \in 1..Len(calls) : RaceTimedOut(i)
    \/ \E i \in 1..Len(calls), a \in {YtdlpThrew, YtdlpOpus} :
           YtdlpAnswered(i, a)
    \/ \E i \in 1..Len(calls) : DownloadSettled(i, "http", 0)
    \/ \E i \in 1..Len(calls) :
           DownloadSettled(i, "body", MIN_CACHED_SIZE + 1)
    \/ GetYouTubeStreamUrl("abc12345678")
    \/ \E i \in 1..Len(ytCalls), ok \in BOOLEAN : InnertubeCreated(i, ok)
    \/ \E i \in 1..Len(ytCalls), client \in {"ANDROID", "WEB", "IOS"} :
           \E info \in YtAnswers(client) :
               /\ ytCalls[i].attempts # <<>>
               /\ ytCalls[i].attempts[Len(ytCalls[i].attempts)] = client
               /\ ClientAnswered(i, info)
    \/ UrlCacheCleanup
    \/ TickFallback

SpecFallback == Init /\ [][NextFallback]_vars

\* The same with what is sure to happen.  The timer of lines 374-376 fires
\* (RaceTimedOut); yt-dlp, Innertube.create and the download are taken to
\* end.  Nothing makes a Piped instance or an Innertube client answer:
\* getBasicInfo (line 72) is awaited without a timer.
SpecTermination ==
    /\ SpecFallback
    /\ \A i \in 1..2 :
           /\ WF_vars(RaceTimedOut(i))
           /\ WF_vars(\E a \in {YtdlpThrew, YtdlpOpus} : YtdlpAnswered(i, a))
           /\ WF_vars(DownloadSettled(i, "http", 0))
           /\ WF_vars(\E ok \in BOOLEAN : InnertubeCreated(i, ok))

---------------------------------------------------------------------------
(* The entry points, given a well-formed id and the three-character id     *)
(* "abc": getStreamUrl, and handleStreamProtocol before getYouTubeStreamUrl.*)

NextEntry ==
    \/ \E id \in {"c", "abc"} : GetStreamUrl(id)
    \/ \E i \in 1..Len(calls) : RaceTimedOut(i)
    \/ \E i \in 1..Len(calls), a \in {YtdlpThrew, YtdlpOpus} :
           YtdlpAnswered(i, a)
    \/ \E i \in 1..Len(calls) : DownloadSettled(i, "http", 0)
    \/ \E id \in {"abc12345678", "abc"} : HandleStreamProtocol(id)
    \/ \E i \in 1..Len(ytCalls), ok \in BOOLEAN : InnertubeCreated(i, ok)
    \/ \E i \in 1..Len(ytCalls), info \in {YtBlocked, YtDirect("any")} :
           ClientAnswered(i, info)

SpecEntry == Init /\ [][NextEntry]_vars

---------------------------------------------------------------------------
(* getHighestQualityAudio over every list of up to MaxFormats formats.     *)

SelectFormats ==
    { Format(140, "mp4a", 128, PlainUrl), Format(251, "opus", 160, PlainUrl),
      Format(141, "mp4a", 256, PlainUrl), Format(0, "opus", 128, PlainUrl),
      Format(250, "opus", 70, PlainUrl) }

MaxFormats == 3

SelectInputs ==
    UNION { [1..n -> SelectFormats] : n \in 0..MaxFormats }

InitSelect == Loaded /\ selInput \in SelectInputs

NextSelect == GetHighestQualityAudioCalled

SpecSelect == InitSelect /\ [][NextSelect]_vars

---------------------------------------------------------------------------
(* downloadSong, every await settling either way.                          *)

NextDownload ==
    \/ \E title \in {"t", "u"} : DownloadSong("c", title)
    \/ \E rejected \in BOOLEAN : DownloadSongSettingsRead(rejected)
    \/ \E rejected \in BOOLEAN,
          r \in {ProcessStreamData(PipedUp), ProcessStreamData(PipedMixed),
                 ProcessStreamData(PipedWithoutUrls), YtdlpResult(YtdlpOpus),
                 YtdlpResult(YtdlpThrew)} :
           DownloadSongResolved(rejected, r)
    \/ \E rejected, ok \in BOOLEAN : DownloadSongFetched(rejected, ok)
    \/ \E rejected, written \in BOOLEAN, size \in {0, 1, 2} :
           DownloadSongBodyRead(rejected, size, written)
    \/ \E rejected, songExists \in BOOLEAN :
           DownloadSongLookedUp(rejected, songExists)
    \/ \E rejected \in BOOLEAN : DownloadSongAdded(rejected)

SpecDownload == Init /\ [][NextDownload]_vars

---------------------------------------------------------------------------
(* The cache test of getStreamUrl and isVideoCached over files of every    *)
(* extension, size and age.                                                *)

NextHas ==
    \/ GetStreamUrl("MPEDc")
    \/ PrefetchVideos(<< "c" >>)
    \/ \E ext \in {".m4a", ".opus", ".webm"},
          size \in {MIN_CACHED_SIZE, MIN_CACHED_SIZE + 1} :
           CacheFileWritten("c", ext, size)
    \/ \E i \in 1..Len(calls) : RaceWon(i, PIPED_INSTANCES[1], PipedUp)
    \/ \E i \in 1..Len(calls) : StickyAnswered(i, PipedUp)
    \/ \E i \in 1..Len(calls) : DownloadSettled(i, "http", 0)
    \/ TickResolver

SpecHas == Init /\ [][NextHas]_vars

---------------------------------------------------------------------------
(* The queue manager under every call of its methods and every reply.      *)

SampleQueues == { <<>>, << "s1" >>, << "s1", "s2", "s3" >> }

NextQueue ==
    \/ SetPlayer
    \/ \E songs \in SampleQueues, startIndex \in {0, 2} :
           SetQueueAndPlay(songs, startIndex)
    \/ PlaySingle("s4")
    \/ SkipToNext
    \/ \E late \in BOOLEAN : SkipToPrevious(late)
    \/ \E event \in {"playbackComplete", "skipForwardRequest",
                      "skipBackwardRequest"}, late \in BOOLEAN :
           PlayerEmitted(event, late)
    \/ \E index \in {-1, 0, 1, 3} : JumpToIndex(index)
    \/ Stop
    \/ Clear
    \/ \E i \in 1..Len(playCalls), streamUrl \in {"url", "null", "threw"} :
           StreamUrlArrived(i, streamUrl)
    \/ \E i \in 1..Len(playCalls), threw \in BOOLEAN :
           PlayOnlineSongReturned(i, threw)

SpecQueue == Init /\ [][NextQueue]_vars

---------------------------------------------------------------------------
(* Claims                                                                  *)

C2_ProtectedFilesSurvive ==
    [][ \A n \in DOMAIN files :
            (n.videoId \in protectedSongIds /\ n.videoId \in protectedSongIds')
            => n \in DOMAIN files'
      ]_vars

\* A sweep has deleted for space, and both files of the protected id x,
\* unused for more than MAX_CACHE_AGE_DAYS and together over the budget, are
\* still there.
C2_Witness ==
    /\ lastSweep.pass2 # {}
    /\ lastSweep.pass2 \cap DOMAIN files = {}
    /\ "x" \in protectedSongIds
    /\ \A n \in {FileName("x", ".m4a"), FileName("x", ".webm")} :
           /\ n \in DOMAIN files
           /\ now - LastUsed(files[n]) > maxAge
    /\ SumSizes(files, DOMAIN files) > maxBytes

UnprotectedFiles(fs, protected) ==
    { n \in DOMAIN fs : n.videoId \notin protected }

NewCall(j) ==
    /\ calls'[j].pc \in {"sticky", "race"}
    /\ Len(calls'[j].contacted) <= Len(PIPED_INSTANCES)
    /\ \A i \in 1..Len(calls) : calls[i] # calls'[j]

\* C4: once getStreamUrl has resolved an id, a getStreamUrl of the same id
\* that begins a resolution before the expiry the metadata cache would give
\* that result contacts no provider (no Piped instance, no yt-dlp).
C4_RepeatWithinTtlContactsNoProvider ==
    [][ \A j \in 1..Len(calls') :
            ( /\ NewCall(j)
              /\ calls'[j].fn = "getStreamUrl"
              /\ calls'[j].videoId = lastResolve.videoId
              /\ now < lastResolve.expiresAt )
            => calls'[j].contacted = <<>>
      ]_vars

\* Call j of ytCalls' has just asked its first Innertube client.
NewYtAttempt(j) ==
    /\ ytCalls'[j].pc = "client"
    /\ Len(ytCalls'[j].attempts) = 1
    /\ \A i \in 1..Len(ytCalls) : ytCalls[i] # ytCalls'[j]

Codecs == {"opus", "mp4a"}

\* C10 as stated: for some designated primary codec, the returned format
\* has that codec whenever the list holds one, no format of the returned
\* one's codec has a higher bitrate, and of a 128 kbps and a 256 kbps
\* format the 256 kbps one is returned.
C10_PrimaryCodecThenBitrate ==
    (selResult.called /\ selInput # <<>>) =>
        /\ selResult.returned # <<>>
        /\ LET r == selResult.returned[1] IN
           /\ \E primary \in Codecs :
                  (\E i \in 1..Len(selInput) :
                       selInput[i].audioCodec = primary)
                  => r.audioCodec = primary
           /\ \A i \in 1..Len(selInput) :
                  selInput[i].audioCodec = r.audioCodec
                  => selInput[i].bitrate <= r.bitrate
           /\ ( /\ Len(selInput) = 2
                /\ {selInput[1].bitrate, selInput[2].bitrate} = {128, 256} )
              => r.bitrate = 256

PreferredItags == {251, 140}

\* C10, amended: the first format of the list with itag 251 or 140 is
\* returned, whatever its codec and bitrate; when the list has none, the
\* first format of the highest bitrate is; the empty list gives null.
C10_PreferredItagThenBitrate ==
    selResult.called =>
        IF selInput = <<>> THEN selResult.returned = <<>>
        ELSE /\ Len(selResult.returned) = 1
             /\ \E k \in 1..Len(selInput) :
                    /\ selResult.returned[1] = selInput[k]
                    /\ IF \E i \in 1..Len(selInput) :
                              selInput[i].itag \in PreferredItags
                       THEN /\ selInput[k].itag \in PreferredItags
                            /\ \A i \in 1..(k - 1) :
                                   selInput[i].itag \notin PreferredItags
                       ELSE /\ \A i \in 1..Len(selInput) :
                                   selInput[i].bitrate <= selInput[k].bitrate
                            /\ \A i \in 1..(k - 1) :
                                   selInput[i].bitrate < selInput[k].bitrate

\* The 128 kbps format with itag 140 is returned although a 256 kbps format
\* of the same codec stands before it in the list.
C10_Witness ==
    /\ selResult.called
    /\ selInput = << Format(141, "mp4a", 256, PlainUrl),
                     Format(140, "mp4a", 128, PlainUrl) >>
    /\ selResult.returned = << Format(140, "mp4a", 128, PlainUrl) >>

\* C5: the number of running prefetch downloads never leaves the range
\* 0..MAX_CONCURRENT_PREFETCH (2).
C5_ActivePrefetchesBounded ==
    /\ activePrefetches >= 0
    /\ activePrefetches <= MAX_CONCURRENT_PREFETCH

\* The limit is reached while more ids wait.
C5_Witness ==
    /\ activePrefetches = MAX_CONCURRENT_PREFETCH
    /\ Cardinality(prefetchInProgress) = MAX_CONCURRENT_PREFETCH
    /\ prefetchQueue # <<>>

\* C6: whenever the scheduler is at rest no worker slot is free while an id
\* waits in the queue, also after a dequeued id was skipped because its file
\* was already cached.
C6_NoFreeSlotWhileQueued ==
    ~(activePrefetches < MAX_CONCURRENT_PREFETCH /\ prefetchQueue # <<>>)

NoDuplicates(s) == \A i, j \in 1..Len(s) : s[i] = s[j] => i = j

\* C7: prefetchVideos appends an id only if it is not cached, not in flight
\* and not already queued, so the queue never holds an id twice or an id
\* that is in flight; the burst [a, b, a] given to an idle scheduler starts
\* exactly the downloads of a and b.
C7_AppendsOnlyNewIds ==
    [][ /\ NoDuplicates(prefetchQueue')
        /\ SeqToSet(prefetchQueue') \cap prefetchInProgress' = {}
        /\ \A id \in (SeqToSet(prefetchQueue') \cup prefetchInProgress')
                       \ (SeqToSet(prefetchQueue) \cup prefetchInProgress) :
               ~IsVideoCached(id, files, now)
        /\ ( /\ lastOp'.fn = "prefetchVideos"
             /\ lastOp'.videoIds = << "a", "b", "a" >>
             /\ lastOp'.idle )
           => ( /\ lastOp'.started = << "a", "b" >>
                /\ prefetchQueue' = <<>> )
      ]_vars

C7_Witness ==
    /\ lastOp.fn = "prefetchVideos"
    /\ lastOp.videoIds = << "a", "b", "a" >>
    /\ lastOp.idle
    /\ lastOp.started = << "a", "b" >>
    /\ prefetchInProgress = {"a", "b"}
    /\ activePrefetches = 2

\* C8: clearPrefetchQueue empties the queue and touches nothing else: the
\* downloads in flight stay registered, keep their slots and keep running.
C8_ClearOnlyEmptiesQueue ==
    [][ (lastOp' # lastOp /\ lastOp'.fn = "clearPrefetchQueue")
        => /\ prefetchQueue' = <<>>
           /\ UNCHANGED <<prefetchInProgress, activePrefetches, calls, files,
                          lastWorkingInstance>>
           /\ \A id \in prefetchInProgress' :
                  \E i \in 1..Len(calls') :
                      /\ calls'[i].fn = "prefetchSingle"
                      /\ calls'[i].videoId = id
      ]_vars

\* A clear that dropped queued ids while two downloads were running.
C8_Witness ==
    /\ lastOp.fn = "clearPrefetchQueue"
    /\ lastOp.dropped # <<>>
    /\ lastOp.inFlight # {}
    /\ prefetchQueue = <<>>
    /\ prefetchInProgress = lastOp.inFlight
    /\ activePrefetches = Cardinality(lastOp.inFlight)

\* C11: a format without a url is never selected and never used: the format
\* getHighestQualityAudio picks from a provider's result has a url, and so
\* has the format of every download that is running.
C11_NoFormatWithoutUrl ==
    /\ lastResolve.best # <<>> => lastResolve.best[1].url.present
    /\ \A i \in 1..Len(calls) :
           calls[i].pc = "download" =>
               /\ calls[i].best # <<>>
               /\ calls[i].best[1].url.present

\* The third Piped instance answered with a 160 kbps stream of itag 251
\* without url and a 48 kbps stream with one: the 48 kbps format is being
\* downloaded.
C11_Witness ==
    /\ lastResolve.via = PIPED_INSTANCES[3]
    /\ lastResolve.best = << Format(139, "mp4a", 48, PlainUrl) >>
    /\ \E i \in 1..Len(calls) :
           /\ calls[i].fn = "getStreamUrl"
           /\ calls[i].pc = "download"
           /\ calls[i].best = lastResolve.best

\* C12: the expiresAt stored with a resolution is the expire epoch of the
\* url of the format getHighestQualityAudio picks from it, minus 5 minutes,
\* when that url carries an expire parameter, and now + 6 hours when it
\* carries none.
C12_ExpiryOfChosenFormat ==
    [][ \A o \in dbOps' \ dbOps :
            o.op = "upsert" =>
                LET best == GetHighestQualityAudio(o.audioFormats) IN
                best # <<>> =>
                    o.expiresAt =
                        IF best[1].url.hasExpire
                        THEN best[1].url.expire - EXPIRY_MARGIN_MIN
                        ELSE now + DEFAULT_TTL_MIN
      ]_vars

\* C13: an id that is not well formed is turned away before any provider
\* is asked: no fetchStreamInfo and no Innertube client request is begun
\* for the three-character id "abc".
C13_MalformedIdReachesNoProvider ==
    [][ /\ \A j \in 1..Len(calls') :
               NewCall(j) => calls'[j].videoId \notin ShortIds
        /\ \A j \in 1..Len(ytCalls') :
               NewYtAttempt(j) => ytCalls'[j].videoId \notin ShortIds
      ]_vars

\* Call i of calls has returned in this step (a prefetch worker that ends
\* may start the next queued id, which is then the last call of calls').
CallEnded(i) ==
    \/ calls' = RemoveAt(calls, i)
    \/ /\ Len(calls') = Len(calls)
       /\ SubSeq(calls', 1, Len(calls) - 1) = RemoveAt(calls, i)
       /\ calls'[Len(calls')].videoId # calls[i].videoId

\* C14: fetchStreamInfo reports failure only on total exhaustion: a call
\* that ends because its resolution was not playable has asked every Piped
\* instance and yt-dlp, and was waiting for yt-dlp, the last tier, when it
\* ended; an answer of a Piped instance whose streams all lack a url does
\* not end the call.
C14_FailureOnlyOnExhaustion ==
    [][ \A i \in 1..Len(calls) :
            (CallEnded(i) /\ calls[i].pc # "download")
            => /\ calls[i].pc = "ytdlp"
               /\ SeqToSet(PIPED_INSTANCES) \cup {"yt-dlp"}
                      \subseteq SeqToSet(calls[i].contacted)
      ]_vars

\* C15: a failed resolution leaves no negative entry.  When a call ends
\* because yt-dlp, the last tier, failed, and when getYouTubeStreamUrl ends
\* with null, the cache directory, the stream_url_cache table and urlCache
\* are as they were; getStreamUrl answers without a resolution only from a
\* usable cached file and getYouTubeStreamUrl only from a memoized url that
\* was stored at a success; every resolution that begins starts at the top
\* of its chain (the last working Piped instance or all five; ANDROID).
C15_NoNegativeEntry ==
    [][ /\ \A i \in 1..Len(calls) :
               (CallEnded(i) /\ calls[i].pc = "ytdlp")
               => UNCHANGED <<files, streamUrlCache, dbOps, urlCache>>
        /\ (\E i \in 1..Len(ytCalls) :
                /\ ytCalls' = RemoveAt(ytCalls, i)
                /\ lastYt'.url = <<>>)
           => UNCHANGED <<files, streamUrlCache, dbOps, urlCache>>
        /\ ( /\ lastOp' # lastOp
             /\ lastOp'.fn = "getStreamUrl"
             /\ calls' = calls )
           => /\ lastOp'.result = "file"
              /\ IsUsableFile(files, lastOp'.file, now)
        /\ (lastYt' # lastYt /\ lastYt'.cached)
           => /\ lastYt'.url # <<>>
              /\ lastYt'.url[1].http
        /\ \A j \in 1..Len(calls') :
               NewCall(j) =>
                   /\ calls'[j].contacted # <<>>
                   /\ calls'[j].contacted[1] \in SeqToSet(PIPED_INSTANCES)
        /\ \A j \in 1..Len(ytCalls') :
               NewYtAttempt(j) => ytCalls'[j].attempts = << "ANDROID" >>
      ]_vars

\* getStreamUrl("c") has failed in yt-dlp and getYouTubeStreamUrl in all
\* three clients; nothing is stored, and both are being resolved again from
\* the top.
C15_Witness ==
    /\ lastOp = Op("getStreamUrl", "c", "null", NoFile)
    /\ lastYt = YtOp("abc12345678", <<>>, << "ANDROID", "WEB", "IOS" >>, FALSE)
    /\ files = EmptyMap
    /\ streamUrlCache = EmptyMap
    /\ urlCache = EmptyMap
    /\ Len(calls) = 1
    /\ calls[1].videoId = "c"
    /\ calls[1].pc = "ytdlp"
    /\ calls[1].contacted = Append(PIPED_INSTANCES, "yt-dlp")
    /\ Len(ytCalls) = 1
    /\ ytCalls[1].videoId = "abc12345678"
    /\ ytCalls[1].attempts = << "ANDROID", "WEB", "IOS" >>

\* C16: when a resolution succeeds (a call goes on to its download), the
\* stream_url_cache table has a row for the id and the provider that
\* answered is the remembered one: yt-dlp when the call was waiting for
\* yt-dlp, otherwise one of the Piped instances the call contacted.
C16_SuccessStoresRowAndProvider ==
    [][ \A i \in 1..Len(calls) :
            ( /\ Len(calls') = Len(calls)
              /\ calls[i].pc # "download"
              /\ calls'[i].pc = "download" )
            => /\ StripMPED(calls[i].videoId) \in DOMAIN streamUrlCache'
               /\ calls[i].pc = "ytdlp" => lastWorkingInstance' = "yt-dlp"
               /\ calls[i].pc # "ytdlp" =>
                      lastWorkingInstance' \in SeqToSet(calls[i].contacted)
      ]_vars

\* C17: after updateProtectedSongIds(S), and until another call returns,
\* the protected set is exactly the ids of S without their MPED prefix; a
\* sweep that runs then deletes for age exactly the files of other ids not
\* used for more than MAX_CACHE_AGE_DAYS, deletes no file of an id of S,
\* and stops deleting for space only when the cache is within its budget
\* or has no file of another id left.
C17_ProtectedSetIsTheLastUpdate ==
    [][ /\ lastOp'.fn = "updateProtectedSongIds"
           => protectedSongIds' = {StripMPED(id) : id \in lastOp'.songIds}
        /\ ( /\ lastOp.fn = "updateProtectedSongIds"
             /\ lastSweep'.tick # lastSweep.tick )
           => LET S == {StripMPED(id) : id \in lastOp.songIds} IN
              /\ lastSweep'.pass1 =
                     { n \in DOMAIN files :
                         /\ n.videoId \notin S
                         /\ now - LastUsed(files[n]) > maxAge }
              /\ \A n \in DOMAIN files :
                     n.videoId \in S => n \in DOMAIN files'
              /\ \/ SumSizes(files', DOMAIN files') <= maxBytes
                 \/ \A n \in DOMAIN files' : n.videoId \in S
      ]_vars

\* The last update named MPEDx only: x is protected and y is not.  The
\* sweep after it deleted the file of y for age and kept the file of x,
\* which is as old.
C17_Witness ==
    /\ lastOp = [fn |-> "updateProtectedSongIds", songIds |-> {"MPEDx"}]
    /\ protectedSongIds = {"x"}
    /\ lastSweep.pass1 = {FileName("y", ".m4a")}
    /\ FileName("y", ".m4a") \notin DOMAIN files
    /\ FileName("x", ".m4a") \in DOMAIN files
    /\ now - LastUsed(files[FileName("x", ".m4a")]) > maxAge

\* C18: while getStreamUrl or a prefetch worker is writing a payload, the
\* cache file of that name is never in the directory truncated: whoever
\* looks finds no file or a whole payload.
C18_WriteIsAtomicForReaders ==
    \A i \in 1..Len(calls) :
        (calls[i].pc = "write" /\ calls[i].cachedFile \in DOMAIN files)
        => files[calls[i].cachedFile].size > 0

\* C19: when getStreamUrl or a prefetch worker ends after its download, no
\* file of its id smaller than MIN_CACHED_SIZE is in the cache directory,
\* and the file it returns a reference to is not smaller than that.
C19_SmallDownloadIsDiscarded ==
    [][ \A i \in 1..Len(calls) :
            (CallEnded(i) /\ calls[i].pc \in {"download", "write"})
            => /\ \A n \in DOMAIN files' :
                      n.videoId = calls[i].videoId
                      => files'[n].size >= MIN_CACHED_SIZE
               /\ lastOp'.result = "file"
                      => files'[lastOp'.file].size >= MIN_CACHED_SIZE
      ]_vars

\* C20: a step that takes a file out of the cache directory is a sweep of
\* cleanupCache, and the files gone are those the sweep deleted for age or
\* for space.
C20_OnlyTheSweepDeletes ==
    [][ \/ DOMAIN files \subseteq DOMAIN files'
        \/ /\ lastSweep'.tick # lastSweep.tick
           /\ (DOMAIN files) \ (DOMAIN files') =
                  lastSweep'.pass1 \cup lastSweep'.pass2
      ]_vars

\* A sweep deleted c.m4a for age; getStreamUrl("c") then wrote it again,
\* and the next getStreamUrl("c"), whose download failed, left it in place.
C20_Witness ==
    /\ lastSweep.pass1 = {FileName("c", ".m4a")}
    /\ FileName("c", ".m4a") \in DOMAIN files
    /\ ~IsUsableFile(files, FileName("c", ".m4a"), now)
    /\ lastOp = Op("getStreamUrl", "c", "null", NoFile)
    /\ calls = <<>>

\* C21: when an upsert commits, the row of its id is, field for field, what
\* that call of saveStreamInfoToCache was given and computed (formats,
\* expiresAt, title, duration), and no other row changes.
C21_RowIsTheLastUpsert ==
    [][ \A o \in dbOps \ dbOps' :
            o.op = "upsert" =>
                /\ o.videoId \in DOMAIN streamUrlCache'
                /\ streamUrlCache'[o.videoId] =
                       [audioFormats |-> o.audioFormats,
                        expiresAt |-> o.expiresAt,
                        title |-> o.title,
                        duration |-> o.duration]
                /\ \A id \in (DOMAIN streamUrlCache) \ {o.videoId} :
                       /\ id \in DOMAIN streamUrlCache'
                       /\ streamUrlCache'[id] = streamUrlCache[id]
      ]_vars

\* C22: whenever downloadSong returns, it returns a result: success with
\* the path of a file that is in the downloads folder and not empty, or
\* failure with an error.  A call that ends while resolving or downloading
\* returns failure; a call that ends after its file was written, whatever
\* happened with the library, returns success.
C22_DownloadSongResult ==
    [][ (downloadCall.pc # "none" /\ downloadCall'.pc = "none")
        => /\ lastDownload'.fn = "downloadSong"
           /\ lastDownload'.success =>
                  /\ lastDownload'.path # <<>>
                  /\ lastDownload'.path[1] \in DOMAIN downloaded'
                  /\ downloaded'[lastDownload'.path[1]] > 0
           /\ ~lastDownload'.success => lastDownload'.error # ""
           /\ downloadCall.pc \in {"fetchStreamInfo", "fetch", "arrayBuffer"}
                  => ~lastDownload'.success
           /\ downloadCall.pc \in {"isSongWithPathAvailable", "library"}
                  => lastDownload'.success
      ]_vars

\* C23: every resolution ends, whichever providers never answer: a running
\* getYouTubeStreamUrl returns, and a call that is inside fetchStreamInfo
\* leaves it.
C23_ResolutionTerminates ==
    /\ (ytCalls # <<>>) ~> (ytCalls = <<>>)
    /\ (\E i \in 1..Len(calls) : calls[i].pc \in {"sticky", "race", "ytdlp"})
          ~> (\A i \in 1..Len(calls) :
                  calls[i].pc \notin {"sticky", "race", "ytdlp"})

\* C24: a call that found a last working instance asks that instance alone
\* first, and no call sends a second request to a provider it has already
\* asked: what is raced after the sticky instance failed are the others.
C24_StickyIsNotAskedTwice ==
    \A i \in 1..Len(calls) :
        /\ calls[i].pc = "sticky" => calls[i].contacted = << calls[i].sticky >>
        /\ \A j, k \in 1..Len(calls[i].contacted) :
               j # k => calls[i].contacted[j] # calls[i].contacted[k]

\* C25: a call that leaves the race with formats has them from the
\* instance that won, and that instance is the one remembered: result and
\* lastWorkingInstance come from the same raced instance.  A raced instance
\* that succeeds after the race was decided changes neither the call nor
\* lastWorkingInstance nor anything that was returned.
C25_FirstSuccessWins ==
    [][ \A i \in 1..Len(calls) :
            /\ ( /\ calls[i].pc = "race"
                 /\ Len(calls') = Len(calls)
                 /\ calls'[i].pc = "download" )
               => /\ calls'[i].via \in SeqToSet(calls[i].contacted)
                  /\ lastWorkingInstance' = calls'[i].via
                  /\ calls'[i].fn = "getStreamUrl"
                         => /\ lastResolve'.via = calls'[i].via
                            /\ lastResolve'.best = calls'[i].best
            /\ ( /\ Len(calls') = Len(calls)
                 /\ calls'[i].late # calls[i].late )
               => /\ calls' = [calls EXCEPT ![i].late = calls'[i].late]
                  /\ UNCHANGED <<lastWorkingInstance, lastResolve, lastOp,
                                 files>>
      ]_vars

\* getStreamUrl("c") has its formats from the third instance, which won
\* the race and is the one remembered; the first instance answered later.
C25_Witness ==
    /\ Len(calls) = 1
    /\ calls[1].fn = "getStreamUrl"
    /\ calls[1].pc = "download"
    /\ calls[1].via = PIPED_INSTANCES[3]
    /\ calls[1].late = {PIPED_INSTANCES[1]}
    /\ lastWorkingInstance = PIPED_INSTANCES[3]
    /\ lastResolve.via = PIPED_INSTANCES[3]
    /\ lastResolve.best = calls[1].best

\* C26: the clients are asked one after the other in the order ANDROID,
\* WEB, IOS: while a call waits for a client, every client asked before has
\* answered without a url; the call ends with the first url a client gives,
\* which is the url of the client asked last, and asks no client after it.
C26_ClientsInOrder ==
    [][ /\ \A i \in 1..Len(ytCalls') :
               LET c == ytCalls'[i] IN
               c.pc = "client" =>
                   /\ c.attempts = SubSeq(<< "ANDROID", "WEB", "IOS" >>,
                                          1, Len(c.attempts))
                   /\ Len(c.got) = Len(c.attempts) - 1
                   /\ \A k \in 1..Len(c.got) : c.got[k] = <<>>
        /\ \A i \in 1..Len(ytCalls) :
               ( /\ ytCalls[i].pc = "client"
                 /\ ytCalls' = RemoveAt(ytCalls, i)
                 /\ lastYt'.url # <<>> )
               => /\ lastYt'.attempts = ytCalls[i].attempts
                  /\ lastYt'.url[1].client =
                         lastYt'.attempts[Len(lastYt'.attempts)]
      ]_vars

\* ANDROID and WEB gave no url, IOS gave the one that was returned; the
\* next call has asked ANDROID and WEB and waits for WEB.
C26_Witness ==
    /\ lastYt.fn = "getYouTubeStreamUrl"
    /\ lastYt.attempts = << "ANDROID", "WEB", "IOS" >>
    /\ lastYt.url # <<>>
    /\ lastYt.url[1].client = "IOS"
    /\ Len(ytCalls) = 1
    /\ ytCalls[1].pc = "client"
    /\ ytCalls[1].attempts = << "ANDROID", "WEB" >>
    /\ ytCalls[1].got = << <<>> >>

\* C27: yt-dlp is the last tier: a resolution turns to it only after every
\* Piped instance it asked has failed and after the clients ANDROID, WEB
\* and IOS have been asked for the video and have failed too, and never
\* after an earlier tier has given it formats.
C27_YtdlpAfterBothTiers ==
    [][ \A i \in 1..Len(calls) :
            ( /\ Len(calls') = Len(calls)
              /\ calls[i].pc # "ytdlp"
              /\ calls'[i].pc = "ytdlp" )
            => /\ calls[i].pc = "race"
               /\ calls[i].best = <<>>
               /\ SeqToSet(PIPED_INSTANCES) \subseteq
                      SeqToSet(calls[i].contacted)
               /\ { "ANDROID", "WEB", "IOS" } \subseteq
                      SeqToSet(calls[i].contacted)
      ]_vars

\* The part of C27 that holds: yt-dlp is asked only by a call whose race
\* over every Piped instance timed out, never by one that has formats.
C27_YtdlpAfterPiped ==
    [][ \A i \in 1..Len(calls) :
            ( /\ Len(calls') = Len(calls)
              /\ calls[i].pc # "ytdlp"
              /\ calls'[i].pc = "ytdlp" )
            => /\ calls[i].pc = "race"
               /\ calls[i].best = <<>>
               /\ SeqToSet(PIPED_INSTANCES) \subseteq
                      SeqToSet(calls[i].contacted)
      ]_vars

\* The example of C28 before the sweep: only x is protected, its file has
\* not been used for 40 days, that of y not for 25 days.
SweepExample ==
    /\ protectedSongIds = {"x"}
    /\ DOMAIN files = {FileName("x", ".m4a"), FileName("y", ".m4a")}
    /\ now - LastUsed(files[FileName("x", ".m4a")]) = 40 * 24 * 60
    /\ now - LastUsed(files[FileName("y", ".m4a")]) = 25 * 24 * 60

C29_Pass2CountsUnprotectedOnly ==
    [][ lastSweep'.tick # lastSweep.tick =>
          LET left == Restrict(files, (DOMAIN files) \ lastSweep'.pass1) IN
          SumSizes(left, UnprotectedFiles(left, protectedSongIds)) <= maxBytes
              => lastSweep'.pass2 = {}
      ]_vars

\* The part of C29 that holds: nothing is deleted for space when all the
\* files left by the first pass, protected ones included, are within
\* MAX_CACHE_SIZE_MB.
C29_Pass2CountsEveryFile ==
    [][ lastSweep'.tick # lastSweep.tick =>
          LET left == Restrict(files, (DOMAIN files) \ lastSweep'.pass1) IN
          SumSizes(left, DOMAIN left) <= maxBytes => lastSweep'.pass2 = {}
      ]_vars

\* C30: the second pass deletes unprotected files only, least recently
\* accessed first: no unprotected file left by a sweep has an access time
\* older than that of a file the second pass deleted.  It deletes no more
\* than it has to: before its last deletion the files were still over
\* MAX_CACHE_SIZE_MB, and it leaves an unprotected file only when the files
\* are within it.
C30_OldestAccessFirst ==
    [][ lastSweep'.tick # lastSweep.tick =>
          LET pass2     == lastSweep'.pass2
              survivors == UnprotectedFiles(files', protectedSongIds)
              total     == SumSizes(files', DOMAIN files')
          IN  /\ pass2 \subseteq DOMAIN files \ lastSweep'.pass1
              /\ \A d \in pass2 : d.videoId \notin protectedSongIds
              /\ \A s \in survivors, d \in pass2 :
                     files[s].atime >= files[d].atime
              /\ pass2 # {} =>
                     \E d \in pass2 : total + files[d].size > maxBytes
              /\ survivors # {} => total <= maxBytes
      ]_vars

\* What holds in place of C30: the same with the later of mtime and atime
\* in place of the access time.
C30_OldestUseFirst ==
    [][ lastSweep'.tick # lastSweep.tick =>
          LET pass2     == lastSweep'.pass2
              survivors == UnprotectedFiles(files', protectedSongIds)
              total     == SumSizes(files', DOMAIN files')
          IN  /\ pass2 \subseteq DOMAIN files \ lastSweep'.pass1
              /\ \A d \in pass2 : d.videoId \notin protectedSongIds
              /\ \A s \in survivors, d \in pass2 :
                     Max(files[s].mtime, files[s].atime) >=
                         Max(files[d].mtime, files[d].atime)
              /\ pass2 # {} =>
                     \E d \in pass2 : total + files[d].size > maxBytes
              /\ survivors # {} => total <= maxBytes
      ]_vars

C32_OnlyPrefetchIsDeduplicated ==
    [][ /\ \A i, j \in 1..Len(calls') :
               ( /\ i # j
                 /\ calls'[i].fn = "prefetchSingle"
                 /\ calls'[j].fn = "prefetchSingle" )
               => calls'[i].videoId # calls'[j].videoId
        /\ \A i \in 1..Len(calls) :
               ( /\ calls[i].pc = "download"
                 /\ SubSeq(calls', 1, Len(calls) - 1) = RemoveAt(calls, i)
                 /\ \A j \in Len(calls)..Len(calls') :
                        NewCall(j) /\ calls'[j].fn = "prefetchSingle"
                 /\ lastOp' = Op(calls[i].fn, calls[i].videoId, "file",
                                 calls[i].cachedFile) )
               => /\ calls[i].cachedFile \in DOMAIN files'
                  /\ files'[calls[i].cachedFile].mtime = now
                  /\ files'[calls[i].cachedFile].size > 0
      ]_vars

\* getStreamUrl has just written a usable cache file while a prefetch
\* worker, begun before, is still downloading the same id to the same file.
C32_Witness ==
    \E i \in 1..Len(calls) :
        /\ calls[i].fn = "prefetchSingle"
        /\ calls[i].pc = "download"
        /\ IsUsableFile(files, calls[i].cachedFile, now)
        /\ files[calls[i].cachedFile].mtime = now
        /\ lastOp = Op("getStreamUrl", calls[i].videoId, "file",
                       calls[i].cachedFile)

\* The id has a cache file of one of the three extensions that is larger
\* than 100000 bytes (3125 units) and was modified less than an hour ago.
HasUsableVariant(videoId, fs, t) ==
    \E ext \in {".m4a", ".opus", ".webm"} :
        /\ FileName(videoId, ext) \in DOMAIN fs
        /\ fs[FileName(videoId, ext)].size > 3125
        /\ t - fs[FileName(videoId, ext)].mtime < 60

\* C33: getStreamUrl turns to the providers, and a prefetch worker is
\* begun, only for an id that has no cache file of any extension that is
\* larger than 100000 bytes and less than an hour old; when getStreamUrl
\* returns without having resolved anything, the id has such a file, the
\* file returned is one, and nothing was asked or written.
C33_CachedMeansUsableVariant ==
    [][ /\ \A j \in 1..Len(calls') :
               NewCall(j)
               => ~HasUsableVariant(calls'[j].videoId, files', now)
        /\ ( /\ calls' = calls
             /\ lastOp' # lastOp
             /\ lastOp'.fn = "getStreamUrl" )
           => /\ lastOp'.result = "file"
              /\ HasUsableVariant(lastOp'.videoId, files, now)
              /\ HasUsableVariant(lastOp'.videoId,
                                  Restrict(files, {lastOp'.file}), now)
              /\ files' = files
              /\ lastWorkingInstance' = lastWorkingInstance
        /\ ( /\ Len(calls') = Len(calls) + 1
             /\ calls'[Len(calls')].fn = "getStreamUrl" )
           => /\ lastOp' = lastOp
              /\ calls'[Len(calls')].pc \in {"sticky", "race"}
      ]_vars

\* getStreamUrl has returned the .opus file of c and has asked no provider
\* for it; the .m4a file of c, an hour old, was passed over.
C33_Witness ==
    /\ lastOp = Op("getStreamUrl", "c", "file", FileName("c", ".opus"))
    /\ DOMAIN files = {FileName("c", ".m4a"), FileName("c", ".opus")}
    /\ now - files[FileName("c", ".m4a")].mtime = 60
    /\ files[FileName("c", ".m4a")].size > 3125
    /\ now - files[FileName("c", ".opus")].mtime = 0
    /\ calls = <<>>
    /\ lastResolve = NoResolve

\* C34: a prefetch worker that ends without a file (nothing playable, no
\* format with a url, an HTTP error, a failed or aborted download, an empty
\* body) is not tried again: its id leaves the in-progress set and is
\* neither queued nor started anew, its slot is given back once (the
\* active count changes by the workers begun in the same step less one),
\* and no file is written.
C34_FailedPrefetchIsDropped ==
    [][ \A i \in 1..Len(calls) :
            LET id == calls[i].videoId IN
            ( /\ calls[i].fn = "prefetchSingle"
              /\ \A j \in 1..Len(calls') : calls'[j] # calls[i]
              /\ lastOp' = Op("prefetchSingle", id, "null", NoFile) )
            => /\ id \notin prefetchInProgress'
               /\ id \notin SeqToSet(prefetchQueue')
               /\ \A j \in 1..Len(calls') :
                      calls'[j].fn = "prefetchSingle" => calls'[j].videoId # id
               /\ activePrefetches' =
                      activePrefetches - 1 +
                      Cardinality({ j \in 1..Len(calls') :
                                      /\ calls'[j].fn = "prefetchSingle"
                                      /\ NewCall(j) })
               /\ SeqToSet(prefetchQueue') \subseteq SeqToSet(prefetchQueue)
               /\ files' = files
      ]_vars

\* The prefetch of a has ended without a file; a is neither in progress
\* nor queued, and the worker of b is the only one running.
C34_Witness ==
    /\ lastOp = Op("prefetchSingle", "a", "null", NoFile)
    /\ "a" \notin prefetchInProgress
    /\ "a" \notin SeqToSet(prefetchQueue)
    /\ prefetchInProgress = {"b"}
    /\ activePrefetches = 1
    /\ files = EmptyMap

\* C35: the active count is the number of ids in progress, the queue holds
\* no id twice, and no id is queued and in progress at once.
C35_BookkeepingConsistent ==
    /\ activePrefetches = Cardinality(prefetchInProgress)
    /\ \A i, j \in 1..Len(prefetchQueue) :
           i # j => prefetchQueue[i] # prefetchQueue[j]
    /\ \A i \in 1..Len(prefetchQueue) :
           prefetchQueue[i] \notin prefetchInProgress

\* Two workers run, for a and b, and two more ids wait.
C35_Witness ==
    /\ prefetchInProgress = {"a", "b"}
    /\ activePrefetches = 2
    /\ prefetchQueue = << "c", "d" >>

---------------------------------------------------------------------------
(* OnlineQueueManager                                                      *)

ValidPosition ==
    /\ isActive => (0 <= currentIndex /\ currentIndex < Len(queue))
    /\ ~isActive => currentIndex = -1

\* C36: after any sequence of setQueueAndPlay, playSingle, skipToNext,
\* skipToPrevious, jumpToIndex, stop and clear, an active queue has a valid
\* position: isActive implies 0 <= currentIndex < queue.length, and not
\* isActive implies currentIndex = -1.
C36_ActiveQueueHasValidPosition == ValidPosition

\* C36, the part that holds: every step other than a call of
\* setQueueAndPlay keeps a valid position valid.
C36_OtherMethodsKeepPosition ==
    [][(ValidPosition /\ lastCall'.fn # "setQueueAndPlay") => ValidPosition']_vars

\* The step calls player.playOnlineSong.
PlayerCalled ==
    lastEvent' # lastEvent /\ lastEvent'.kind = "playOnlineSong"

\* C37: the song handed to the player is always the current one: when
\* playOnlineSong is called for a song, that song is queue[currentIndex] at
\* that moment, whatever calls of skipToNext, skipToPrevious, jumpToIndex
\* and setQueueAndPlay came between the request of its stream URL and the
\* reply.
C37_PlayedSongIsCurrent ==
    [][PlayerCalled =>
         /\ 0 <= currentIndex
         /\ currentIndex < Len(queue)
         /\ queue[currentIndex + 1] = lastEvent'.song]_vars

\* The step starts a song or tells the subscribers of a song.
SongStarted ==
    /\ lastEvent' # lastEvent
    /\ \/ lastEvent'.kind = "playOnlineSong"
       \/ lastEvent'.kind = "notifySongChange" /\ lastEvent'.song # NoSong

\* The step is the listener of a player event.
PlayerEventHandled ==
    /\ lastCall' # lastCall
    /\ lastCall'.fn \in {"playbackComplete", "skipForwardRequest",
                         "skipBackwardRequest"}

\* C38, second half: playbackComplete and skip requests received while
\* inactive change nothing.
C38_InactiveRequestsChangeNothing ==
    [][(~isActive /\ PlayerEventHandled) =>
         UNCHANGED <<queue, currentIndex, isActive, playingId, playCalls,
                     lastEvent>>]_vars

\* C38: after stop() or clear(), until the next setQueueAndPlay or
\* playSingle, no song starts playing and no non-null song-change
\* notification is emitted, even when a getStreamUrl request issued before
\* the stop completes afterwards; playbackComplete and skip requests
\* received while inactive change nothing.
C38_NothingPlaysAfterStop ==
    [][/\ (~isActive /\ ~isActive') => ~SongStarted
       /\ (~isActive /\ PlayerEventHandled) =>
            UNCHANGED <<queue, currentIndex, isActive, playingId, playCalls,
                        lastEvent>>]_vars

\* A reply for the first song has started it although the queue has moved on
\* to the second.
C37_LateReplyPlayed ==
    /\ lastEvent.kind = "playOnlineSong"
    /\ lastEvent.song = "s1"
    /\ queue = << "s1", "s2", "s3" >>
    /\ currentIndex = 1
    /\ lastCall.fn = "skipToNext"

\* A reply has started a song after stop().
C38_PlayedAfterStop ==
    /\ lastEvent.kind = "playOnlineSong"
    /\ ~isActive
    /\ lastCall.fn = "stop"

\* The step is a call of the method fn.
MethodCalled(fn) == lastCall' # lastCall /\ lastCall'.fn = fn

\* The step has called playCurrentSong for the first song of the queue, or
\* has set the player back to the start of the song.
Replayed ==
    \/ /\ queue # <<>>
       /\ playCalls' = Append(playCalls,
                              [song |-> queue[1], pc |-> "getStreamUrl"])
    \/ lastEvent' # lastEvent /\ lastEvent'.kind = "currentTime = 0"

SkipsAsDescribed ==
    /\ MethodCalled("skipToNext") =>
         IF currentIndex < Len(queue) - 1
         THEN currentIndex' = currentIndex + 1 /\ isActive'
         ELSE /\ ~isActive'
              /\ currentIndex' = -1
              /\ queue' = queue
    /\ (MethodCalled("skipToPrevious") /\ lastCall'.arg = << FALSE >>) =>
         /\ currentIndex > 0 => currentIndex' = currentIndex - 1
         /\ currentIndex = 0 => (currentIndex' = 0 /\ (player => Replayed))
         /\ isActive'
    /\ \A index \in {-1, 0, 1, 3} :
         (MethodCalled("jumpToIndex") /\ lastCall'.arg = << index >>
            /\ ~(0 <= index /\ index < Len(queue))) =>
         UNCHANGED <<queue, currentIndex, isActive, playingId, playCalls,
                     lastEvent>>

===========================================================================
